---- MODULE Spec2Model ----
(***************************************************************************)
(* Verification model of the cycling elevation profile renderer.          *)
(*                                                                         *)
(* Numbers.  A JavaScript number is modelled as a record                   *)
(*   [k |-> "fin", n |-> numerator, d |-> denominator]   (an exact         *)
(*   rational in lowest terms, d > 0), or the three non-finite values      *)
(*   NaN, +Infinity, -Infinity.  Arithmetic follows IEEE-754 on the        *)
(*   non-finite values and is exact on the finite ones; the inputs the     *)
(*   model draws are dyadic rationals (quarters of a km, whole percents),  *)
(*   for which the code's double arithmetic is exact as well.  Negative    *)
(*   zero is not distinguished from zero.                                  *)
(***************************************************************************)
EXTENDS Integers, Sequences, FiniteSets, TLC

VARIABLES
    segments,   \* data.segments: the segment list handed to the pipeline
    acc,        \* what accumulate(segments) returned, or NoResult
    pc,         \* position of the caller: "idle" | "accumulated"
    call,       \* the last call of a projection function: its name, its
                \* arguments and what it returned
    config,     \* the Config handed to ProfileChart, or NoConfig
    model,      \* what deriveModel(data, config) returned, or NoModel
    props,      \* the data and config objects ClientApp hands to ProfileChart
    memo,       \* the cell of ProfileChart's useMemo: its deps and its value
    view,       \* what the last render of ProfileChart produced, or NoView
    http        \* the segment route's request in progress: the outbound
                \* requests it issued, what came back and the responses it gave

vars == <<segments, acc, pc, call, config, model, props, memo, view, http>>

----------------------------------------------------------------------------
(* Bounds *)
MaxSegs == 2    \* longest segment list
MaxW == 2       \* widest world box of a direct call of the fit, km
MaxScale == 2   \* largest xScale and verticalExaggeration
MaxHeightPx == 1  \* largest platform.heightPx, in steps of 2 px
MaxBuckets == 3   \* longest slopeColors list of a direct call of colorForGrade
MaxTicks == 8     \* largest maxTicks of a direct call of niceStep
MaxRangeExp == 2  \* ranges of a direct call of niceStep span 10^-MaxRangeExp .. 10^MaxRangeExp
MaxObjects == 3   \* data and config objects ClientApp creates after the mount

----------------------------------------------------------------------------
(* JavaScript numbers *)

(* Evaluation.  An operator's arguments and LET definitions are expressions, *)
(* evaluated wherever they are used.  Apply1 .. Apply3 and Bind evaluate an  *)
(* argument once and hand its value on, as a call of the code does.          *)
Apply1(Op(_), a) == CHOOSE v \in {Op(x) : x \in {a}} : TRUE

Apply2(Op(_, _), a, b) == CHOOSE v \in {Op(x, y) : x \in {a}, y \in {b}} : TRUE

Apply3(Op(_, _, _), a, b, c) ==
    CHOOSE v \in {Op(x, y, z) : x \in {a}, y \in {b}, z \in {c}} : TRUE

Apply4(Op(_, _, _, _), a, b, c, d) ==
    CHOOSE v \in {Op(x, y, z, w) : x \in {a}, y \in {b}, z \in {c}, w \in {d}} : TRUE

\* const x = e; Body(x)
Bind(e, Body(_)) == CHOOSE v \in {Body(x) : x \in {e}} : TRUE

Abs(i) == IF i < 0 THEN -i ELSE i

RECURSIVE GCD(_, _)
GCDOf(a, b) == IF b = 0 THEN a ELSE GCD(b, a % b)

GCD(a, b) == Apply2(GCDOf, a, b)

Sign(i) == IF i < 0 THEN -1 ELSE IF i > 0 THEN 1 ELSE 0

NaN  == [k |-> "nan",  n |-> 0, d |-> 1]
PInf == [k |-> "pinf", n |-> 0, d |-> 1]
NInf == [k |-> "ninf", n |-> 0, d |-> 1]

\* the finite number n/d, in lowest terms with a positive denominator
FinOf(n, d) ==
    Bind(GCD(Abs(n), Abs(d)) * (IF d < 0 THEN -1 ELSE 1),
         LAMBDA g : [k |-> "fin", n |-> n \div g, d |-> d \div g])

Fin(n, d) == Apply2(FinOf, n, d)

Num(i) == [k |-> "fin", n |-> i, d |-> 1]
Zero == Num(0)

IsFinite(a) == a.k = "fin"
IsNaN(a) == a.k = "nan"

\* sign of a number that is not NaN: -1, 0, 1
SignOf(a) ==
    CASE a.k = "fin"  -> Sign(a.n)
      [] a.k = "pinf" -> 1
      [] a.k = "ninf" -> -1
      [] OTHER        -> 0

InfOfSign(s) == IF s > 0 THEN PInf ELSE NInf

\* the sum and the product of two finite numbers, reduced before multiplying
FinAdd(a, b) ==
    Bind(GCD(a.d, b.d),
         LAMBDA g : Fin(a.n * (b.d \div g) + b.n * (a.d \div g), (a.d \div g) * b.d))

FinMul(a, b) ==
    Bind(<<GCD(Abs(a.n), b.d), GCD(Abs(b.n), a.d)>>,
         LAMBDA g : Fin((a.n \div g[1]) * (b.n \div g[2]),
                        (a.d \div g[2]) * (b.d \div g[1])))

\* p/q < r/s for 0 <= p < q and 0 <= r < s, by continued fractions
RECURSIVE FracLess(_, _, _, _)
FracLessOf(p, q, r, s) ==
    IF r = 0 THEN FALSE
    ELSE IF p = 0 THEN TRUE
    ELSE IF q \div p # s \div r THEN q \div p > s \div r
    ELSE FracLess(s % r, r, q % p, p)

FracLess(p, q, r, s) == \E t \in {<<p, q, r, s>>} : FracLessOf(t[1], t[2], t[3], t[4])

\* a < b for finite a and b
FinLess(a, b) ==
    IF a.n \div a.d # b.n \div b.d THEN a.n \div a.d < b.n \div b.d
    ELSE FracLess(a.n % a.d, a.d, b.n % b.d, b.d)

\* a + b
AddOf(a, b) ==
    IF IsNaN(a) \/ IsNaN(b) THEN NaN
    ELSE IF IsFinite(a) /\ IsFinite(b) THEN FinAdd(a, b)
    ELSE IF IsFinite(a) THEN b
    ELSE IF IsFinite(b) THEN a
    ELSE IF a.k = b.k THEN a ELSE NaN

\* -a
NegOf(a) ==
    CASE a.k = "fin"  -> [k |-> "fin", n |-> -a.n, d |-> a.d]
      [] a.k = "pinf" -> NInf
      [] a.k = "ninf" -> PInf
      [] OTHER        -> NaN

JNeg(a) == Apply1(NegOf, a)

JAdd(a, b) == Apply2(AddOf, a, b)

\* a - b
JSub(a, b) == JAdd(a, JNeg(b))

\* a * b
MulOf(a, b) ==
    IF IsNaN(a) \/ IsNaN(b) THEN NaN
    ELSE IF IsFinite(a) /\ IsFinite(b) THEN FinMul(a, b)
    ELSE IF SignOf(a) * SignOf(b) = 0 THEN NaN
    ELSE InfOfSign(SignOf(a) * SignOf(b))

JMul(a, b) == Apply2(MulOf, a, b)

\* a / b (a zero divisor is +0)
DivOf(a, b) ==
    IF IsNaN(a) \/ IsNaN(b) THEN NaN
    ELSE IF IsFinite(a) /\ IsFinite(b) THEN
        IF b.n # 0 THEN FinMul(a, Fin(b.d, b.n))
        ELSE IF a.n = 0 THEN NaN ELSE InfOfSign(SignOf(a))
    ELSE IF IsFinite(a) THEN Zero
    ELSE IF IsFinite(b) THEN InfOfSign(SignOf(a) * (IF SignOf(b) < 0 THEN -1 ELSE 1))
    ELSE NaN

JDiv(a, b) == Apply2(DivOf, a, b)

\* a < b, a <= b, a > b (every comparison with NaN is false)
LessOf(a, b) ==
    /\ ~IsNaN(a) /\ ~IsNaN(b)
    /\ IF IsFinite(a) /\ IsFinite(b) THEN FinLess(a, b)
       ELSE IF IsFinite(a) THEN b.k = "pinf"
       ELSE IF IsFinite(b) THEN a.k = "ninf"
       ELSE a.k = "ninf" /\ b.k = "pinf"

JLt(a, b) == \E x \in {a}, y \in {b} : LessOf(x, y)

JGt(a, b) == JLt(b, a)

JLe(a, b) == \E x \in {a}, y \in {b} : ~IsNaN(x) /\ ~IsNaN(y) /\ ~LessOf(y, x)

\* ToBoolean(a): 0, NaN and undefined are falsy
Truthy(a) == a.k # "undef" /\ ~IsNaN(a) /\ ~(IsFinite(a) /\ a.n = 0)

\* a || b
OrOf(a, b) == IF Truthy(a) THEN a ELSE b

JOr(a, b) == Apply2(OrOf, a, b)

\* Math.max(a, b), Math.min(a, b)
MaxOf(a, b) == IF IsNaN(a) \/ IsNaN(b) THEN NaN ELSE IF LessOf(a, b) THEN b ELSE a

MinOf(a, b) == IF IsNaN(a) \/ IsNaN(b) THEN NaN ELSE IF LessOf(b, a) THEN b ELSE a

MathMax(a, b) == Apply2(MaxOf, a, b)

MathMin(a, b) == Apply2(MinOf, a, b)

\* floor of the finite rational n/d (d > 0)
FloorDiv(n, d) == n \div d

\* Math.round(a): the nearest integer, halves rounded towards +Infinity
RoundOf(a) == IF IsFinite(a) THEN Num(FloorDiv(2 * a.n + a.d, 2 * a.d)) ELSE a

MathRound(a) == Apply1(RoundOf, a)

\* a segment field as the code reads it: a number, or absent (undefined)
Undefined == [k |-> "undef", n |-> 0, d |-> 1]

\* unary plus: ToNumber(v)
ToNumber(v) == IF v.k = "undef" THEN NaN ELSE v

----------------------------------------------------------------------------
(* math.ts *)

NoResult == [points |-> <<>>, totalKm |-> NaN, totalGainM |-> NaN]

\* AccumulateStep with the factor 10 (km x percent -> metres) forgotten
AccumulateStepNoScale(st, s) ==
    LET len  == MathMax(Zero, JOr(ToNumber(s.km), Zero))
        g    == JOr(ToNumber(s.grade), Zero)
        d    == JAdd(st.d, len)
        rise == JMul(len, g)
        elev == JAdd(st.elev, rise)
        gain == IF JGt(rise, Zero) THEN JAdd(st.gain, rise) ELSE st.gain
    IN  [pts |-> Append(st.pts, [d |-> d, elev |-> elev]),
         d |-> d, elev |-> elev, gain |-> gain]

\* AccumulateStep with the clamp Math.max(0, .) of the length forgotten
AccumulateStepNoClamp(st, s) ==
    LET len  == JOr(ToNumber(s.km), Zero)
        g    == JOr(ToNumber(s.grade), Zero)
        d    == JAdd(st.d, len)
        rise == JMul(JMul(len, g), Num(10))
        elev == JAdd(st.elev, rise)
        gain == IF JGt(rise, Zero) THEN JAdd(st.gain, rise) ELSE st.gain
    IN  [pts |-> Append(st.pts, [d |-> d, elev |-> elev]),
         d |-> d, elev |-> elev, gain |-> gain]

\* one iteration of the loop of accumulate over the running state
\* st = [pts, d, elev, gain]
AccumulateStep(st, s) ==
    LET len  == MathMax(Zero, JOr(ToNumber(s.km), Zero))
        g    == JOr(ToNumber(s.grade), Zero)
        d    == JAdd(st.d, len)
        rise == JMul(JMul(len, g), Num(10))
        elev == JAdd(st.elev, rise)
        gain == IF JGt(rise, Zero) THEN JAdd(st.gain, rise) ELSE st.gain
    IN  [pts |-> Append(st.pts, [d |-> d, elev |-> elev]),
         d |-> d, elev |-> elev, gain |-> gain]

RECURSIVE AccumulateLoop(_, _)
AccumulateLoop(st, segs) ==
    IF segs = <<>> THEN st
    ELSE Bind(Apply2(AccumulateStep, st, Head(segs)),
              LAMBDA st1 : AccumulateLoop(st1, Tail(segs)))

accumulate(segs) ==
    Bind(AccumulateLoop([pts |-> <<[d |-> Zero, elev |-> Zero]>>,
                         d |-> Zero, elev |-> Zero, gain |-> Zero], segs),
         LAMBDA st : [points |-> st.pts, totalKm |-> st.d,
                      totalGainM |-> MathRound(st.gain)])

\* the two reduce calls of avgGrade
RECURSIVE AvgDist(_, _)
AvgDist(s, segs) ==
    IF segs = <<>> THEN s
    ELSE Bind(JAdd(s, JOr(ToNumber(Head(segs).km), Zero)),
              LAMBDA s1 : AvgDist(s1, Tail(segs)))

RECURSIVE AvgRise(_, _)
AvgRise(s, segs) ==
    IF segs = <<>> THEN s
    ELSE Bind(JAdd(s, JMul(JMul(JOr(ToNumber(Head(segs).km), Zero),
                                JOr(ToNumber(Head(segs).grade), Zero)), Num(10))),
              LAMBDA s1 : AvgRise(s1, Tail(segs)))

avgGrade(segs) ==
    Bind(<<JOr(AvgDist(Zero, segs), Num(1)), AvgRise(Zero, segs)>>,
         LAMBDA t : JMul(JDiv(t[2], JMul(t[1], Num(1000))), Num(100)))

\* the outcome of a call that raised instead of returning
Thrown == "TypeError"

\* buckets.find((s) => g <= s.upTo), from index i on: the index of the first
\* match, 0 when there is none
RECURSIVE FindBucket(_, _, _)
FindBucket(g, buckets, i) ==
    IF i > Len(buckets) THEN 0
    ELSE IF JLe(g, buckets[i].upTo) THEN i
    ELSE FindBucket(g, buckets, i + 1)

\* colorForGrade with the boundary excluded (g < s.upTo)
colorForGradeStrict(g, buckets) ==
    LET hits == {i \in 1..Len(buckets) : JLt(g, buckets[i].upTo)}
    IN  IF hits # {} THEN buckets[CHOOSE i \in hits : \A j \in hits : i <= j].color
        ELSE IF buckets = <<>> THEN Thrown
        ELSE buckets[Len(buckets)].color

\* (buckets.find((s) => g <= s.upTo) || buckets.at(-1)!)!.color; reading
\* .color of the undefined last element of an empty list raises
colorForGrade(g, buckets) ==
    Bind(FindBucket(g, buckets, 1),
         LAMBDA i : IF i # 0 THEN buckets[i].color
                    ELSE IF buckets = <<>> THEN Thrown
                    ELSE buckets[Len(buckets)].color)

\* Math.abs(a)
AbsOf(a) ==
    CASE a.k = "fin"  -> [k |-> "fin", n |-> Abs(a.n), d |-> a.d]
      [] a.k = "nan"  -> NaN
      [] OTHER        -> PInf

MathAbs(a) == Apply1(AbsOf, a)

\* 10^k for an integer k
Pow10(k) == IF k >= 0 THEN Num(10 ^ k) ELSE Fin(1, 10 ^ (-k))

\* the integer k with 10^k <= x < 10^(k+1), for a finite x > 0, searched
\* from k on
RECURSIVE FloorLog10From(_, _)
FloorLog10FromOf(x, k) ==
    IF FinLess(x, Pow10(k)) THEN FloorLog10From(x, k - 1)
    ELSE IF ~FinLess(x, Pow10(k + 1)) THEN FloorLog10From(x, k + 1)
    ELSE k

FloorLog10From(x, k) == Apply2(FloorLog10FromOf, x, k)

\* Math.floor(Math.log10(x)): NaN below 0, -Infinity at 0
FloorLog10Of(x) ==
    CASE x.k = "nan"  -> NaN
      [] x.k = "pinf" -> PInf
      [] x.k = "ninf" -> NaN
      [] OTHER        -> IF x.n < 0 THEN NaN
                         ELSE IF x.n = 0 THEN NInf
                         ELSE Num(FloorLog10From(x, 0))

FloorLog10(x) == Apply1(FloorLog10Of, x)

\* Math.pow(10, e) for an integer, infinite or NaN exponent
MathPow10Of(e) ==
    CASE e.k = "nan"  -> NaN
      [] e.k = "pinf" -> PInf
      [] e.k = "ninf" -> Zero
      [] OTHER        -> Pow10(e.n)

MathPow10(e) == Apply1(MathPow10Of, e)

\* the candidate multipliers [1, 2, 2.5, 5, 10]
NiceMultipliers == <<Num(1), Num(2), Fin(5, 2), Num(5), Num(10)>>

\* cand.reduce((best, v) => (|v - rough| < |best - rough| ? v : best), cand[0])
\* from index i on
RECURSIVE ReduceNearest(_, _, _, _)
ReduceNearestOf(best, cand, i, rough) ==
    IF i > Len(cand) THEN best
    ELSE IF JLt(MathAbs(JSub(cand[i], rough)), MathAbs(JSub(best, rough)))
         THEN ReduceNearest(cand[i], cand, i + 1, rough)
         ELSE ReduceNearest(best, cand, i + 1, rough)

ReduceNearest(best, cand, i, rough) == Apply4(ReduceNearestOf, best, cand, i, rough)

\* niceStep with the last candidate taken instead of the nearest
niceStepLast(range, maxTicks) ==
    JMul(Num(10), MathPow10(FloorLog10(JDiv(range, MathMax(Num(1), ToNumber(maxTicks))))))

\* a reduce that keeps its initial value, cand[0]
niceStepFirst(range, maxTicks) ==
    MathPow10(FloorLog10(JDiv(range, MathMax(Num(1), ToNumber(maxTicks)))))

\* niceStep(range, maxTicks)
niceStep(range, maxTicks) ==
    Bind(JDiv(range, MathMax(Num(1), ToNumber(maxTicks))),
         LAMBDA rough :
           Bind(MathPow10(FloorLog10(rough)),
                LAMBDA pow10 :
                  Bind(<<JMul(NiceMultipliers[1], pow10), JMul(NiceMultipliers[2], pow10),
                         JMul(NiceMultipliers[3], pow10), JMul(NiceMultipliers[4], pow10),
                         JMul(NiceMultipliers[5], pow10)>>,
                       LAMBDA cand : ReduceNearest(cand[1], cand, 1, rough))))

----------------------------------------------------------------------------
(* Square roots and trigonometry *)

\* the integer square root of a perfect square i, found by bisection
RECURSIVE ISqrtBetween(_, _, _)
ISqrtBetweenOf(i, lo, hi) ==
    IF lo >= hi THEN lo
    ELSE Bind((lo + hi + 1) \div 2,
              LAMBDA mid : IF mid <= i \div mid THEN ISqrtBetween(i, mid, hi)
                           ELSE ISqrtBetween(i, lo, mid - 1))

ISqrtBetween(i, lo, hi) == Apply3(ISqrtBetweenOf, i, lo, hi)

ISqrt(i) == ISqrtBetween(i, 0, i)

IsSquare(i) == \E r \in {ISqrt(i)} : r * r = i

\* Math.hypot(dx, dy).  For finite arguments it is |dx| * sqrt(1 + (dy/dx)^2);
\* the cameras of the model keep the ratio dy/dx on a Pythagorean triple, so
\* the root is a rational number and the value is exact.
HypotOf(dx, dy) ==
    IF dx.k \in {"pinf", "ninf"} \/ dy.k \in {"pinf", "ninf"} THEN PInf
    ELSE IF IsNaN(dx) \/ IsNaN(dy) THEN NaN
    ELSE IF dx.n = 0 THEN Fin(Abs(dy.n), dy.d)
    ELSE Bind(FinMul(dy, Fin(dx.d, dx.n)),
              LAMBDA r : FinMul(Fin(Abs(dx.n), dx.d),
                                Fin(ISqrt(r.d * r.d + r.n * r.n), r.d)))

MathHypot(dx, dy) == Apply2(HypotOf, dx, dy)

\* the arguments of MathHypot for which the modelled value is exact
HypotExact(dx, dy) ==
    (IsFinite(dx) /\ IsFinite(dy) /\ dx.n # 0) =>
        \E r \in {FinMul(dy, Fin(dx.d, dx.n))} : IsSquare(r.d * r.d + r.n * r.n)

\* Math.cos(DEG(d)) and Math.sin(DEG(d)).  The camera angles of the model are
\* 0 and the angles of the 3-4-5 triangle, named by their value in degrees
\* rounded to a whole number: 37 is atan(3/4), 53 is atan(4/3), 127 is
\* 180 - atan(4/3), and -37 is -atan(3/4).  (No double d has cos(DEG(d)) = 0
\* exactly, so a right angle is not among them.)
CosDeg(deg) ==
    CASE deg = Num(0)   -> Num(1)
      [] deg = Num(37)  -> Fin(4, 5)
      [] deg = Num(53)  -> Fin(3, 5)
      [] deg = Num(127) -> Fin(-3, 5)
      [] deg = Num(-37) -> Fin(4, 5)
      [] OTHER          -> NaN

SinDeg(deg) ==
    CASE deg = Num(0)   -> Zero
      [] deg = Num(37)  -> Fin(3, 5)
      [] deg = Num(53)  -> Fin(4, 5)
      [] deg = Num(127) -> Fin(4, 5)
      [] deg = Num(-37) -> Fin(-3, 5)
      [] OTHER          -> NaN

\* a ?? b
Nullish(a, b) == IF a.k = "undef" THEN b ELSE a

----------------------------------------------------------------------------
(* download.ts: the axonometric projection and the fit to the canvas *)

Pt(x, y) == [x |-> x, y |-> y]

\* axonProject with the depth Z carried into screen x unrotated
axonProjectZLeak(X, Y, Z, params) ==
    LET Xs == JMul(X, Nullish(params.xScale, Num(1)))
        Ys == JMul(Y, Nullish(params.verticalExaggeration, Num(1)))
        Zs == Z
        cy == CosDeg(params.yawDeg)
        sy == SinDeg(params.yawDeg)
        x1 == JAdd(JMul(cy, Xs), Zs)
        y1 == Ys
        z1 == JAdd(JMul(JNeg(sy), Xs), JMul(cy, Zs))
        cp == CosDeg(params.pitchDeg)
        sp == SinDeg(params.pitchDeg)
        x2 == x1
        y2 == JSub(JMul(cp, y1), JMul(sp, z1))
        cr == CosDeg(params.rollDeg)
        sr == SinDeg(params.rollDeg)
        xp == JSub(JMul(cr, x2), JMul(sr, y2))
        yp == JAdd(JMul(sr, x2), JMul(cr, y2))
    IN  Pt(xp, yp)

\* 3D -> 2D orthographic projector (yaw, then pitch, then roll)
axonProject(X, Y, Z, params) ==
    LET Xs == JMul(X, Nullish(params.xScale, Num(1)))
        Ys == JMul(Y, Nullish(params.verticalExaggeration, Num(1)))
        Zs == Z
        \* Ry(yaw)
        cy == CosDeg(params.yawDeg)
        sy == SinDeg(params.yawDeg)
        x1 == JAdd(JMul(cy, Xs), JMul(sy, Zs))
        y1 == Ys
        z1 == JAdd(JMul(JNeg(sy), Xs), JMul(cy, Zs))
        \* Rx(pitch)
        cp == CosDeg(params.pitchDeg)
        sp == SinDeg(params.pitchDeg)
        x2 == x1
        y2 == JSub(JMul(cp, y1), JMul(sp, z1))
        \* Rz(roll)
        cr == CosDeg(params.rollDeg)
        sr == SinDeg(params.rollDeg)
        xp == JSub(JMul(cr, x2), JMul(sr, y2))
        yp == JAdd(JMul(sr, x2), JMul(cr, y2))
    IN  Pt(xp, yp)

\* the 8 corners of the world box, in the order of the code
BoxCorners(W, H, zMin, zMax) ==
    << <<Zero, Zero, zMin>>, <<W, Zero, zMin>>, <<Zero, H, zMin>>, <<W, H, zMin>>,
       <<Zero, Zero, zMax>>, <<W, Zero, zMax>>, <<Zero, H, zMax>>, <<W, H, zMax>> >>

\* corners.map(([X, Y, Z]) => axonProject(X, Y, Z, params))
RECURSIVE ProjectCorners(_, _)
ProjectCorners(cs, params) ==
    IF cs = <<>> THEN <<>>
    ELSE <<Apply4(axonProject, Head(cs)[1], Head(cs)[2], Head(cs)[3], params)>>
             \o ProjectCorners(Tail(cs), params)

\* one iteration of the loop that grows the bounding rectangle
BoundsStep(b, q) ==
    [minX |-> IF JLt(q.x, b.minX) THEN q.x ELSE b.minX,
     maxX |-> IF JGt(q.x, b.maxX) THEN q.x ELSE b.maxX,
     minY |-> IF JLt(q.y, b.minY) THEN q.y ELSE b.minY,
     maxY |-> IF JGt(q.y, b.maxY) THEN q.y ELSE b.maxY]

RECURSIVE BoundsLoop(_, _)
BoundsLoop(b, ps) ==
    IF ps = <<>> THEN b
    ELSE Bind(Apply2(BoundsStep, b, Head(ps)), LAMBDA b1 : BoundsLoop(b1, Tail(ps)))

EmptyBounds == [minX |-> PInf, minY |-> PInf, maxX |-> NInf, maxY |-> NInf]

\* the clamp of the bounding dimensions, 1e-6
FitEpsilon == Fin(1, 1000000)

\* FitScale taken from the width alone
FitScaleWidthOnly(innerW, innerH, worldW, worldH) == JDiv(innerW, worldW)

\* the uniform scale: the smaller of the two ratios
FitScale(innerW, innerH, worldW, worldH) ==
    MathMin(JDiv(innerW, worldW), JDiv(innerH, worldH))

\* FitOriginY as if screen y were not inverted
FitOriginYNoFlip(cy, yc, scale) == JSub(cy, JMul(yc, scale))

\* the vertical offset: screen y is inverted (+)
FitOriginY(cy, yc, scale) == JAdd(cy, JMul(yc, scale))

\* Fit the world box (W x H, zMin..zMax) into the canvas and center it inside
\* the inner area.  The returned projector is its captured ox, oy, scale and
\* params; FitProject applies it.
fitAxonBoundingRangeCentered(W, H, zMin, zMax, width, height, margin, params) ==
    Bind(BoundsLoop(EmptyBounds, ProjectCorners(BoxCorners(W, H, zMin, zMax), params)),
         LAMBDA b :
           LET innerW == JSub(JSub(width, margin.left), margin.right)
               innerH == JSub(JSub(height, margin.top), margin.bottom)
               worldW == MathMax(FitEpsilon, JSub(b.maxX, b.minX))
               worldH == MathMax(FitEpsilon, JSub(b.maxY, b.minY))
               xc     == JDiv(JAdd(b.minX, b.maxX), Num(2))
               yc     == JDiv(JAdd(b.minY, b.maxY), Num(2))
               cx     == JAdd(margin.left, JDiv(innerW, Num(2)))
               cy     == JAdd(margin.top, JDiv(innerH, Num(2)))
           IN  Bind(FitScale(innerW, innerH, worldW, worldH),
                    LAMBDA scale :
                      [ox |-> JSub(cx, JMul(xc, scale)),
                       oy |-> FitOriginY(cy, yc, scale),
                       scale |-> scale, params |-> params]))

\* proj.project(X, Y, Z)
FitProject(fit, X, Y, Z) ==
    Bind(axonProject(X, Y, Z, fit.params),
         LAMBDA q : Pt(JAdd(fit.ox, JMul(q.x, fit.scale)),
                       JSub(fit.oy, JMul(q.y, fit.scale))))

----------------------------------------------------------------------------
(* ProfileChart.tsx: deriveModel *)

\* Math.min(...xs) and Math.max(...xs)
RECURSIVE MathMinOf(_)
MathMinOf(xs) == IF xs = <<>> THEN PInf ELSE MathMin(Head(xs), MathMinOf(Tail(xs)))

RECURSIVE MathMaxOf(_)
MathMaxOf(xs) == IF xs = <<>> THEN NInf ELSE MathMax(Head(xs), MathMaxOf(Tail(xs)))

\* the floors of the world extents: 10 m of elevation span, 0.001 km of
\* distance, 0.01 km of ribbon depth
MinElevSpanM == Num(10)
MinWorldKm == Fin(1, 1000)
MinRoofDepthKm == Fin(1, 100)

\* computeRoofZBounds with the floor of the thickness forgotten
computeRoofZBoundsNoFloor(roof, W) ==
    LET Dbase == Nullish(roof.depthOverrideKm, JMul(W, roof.depthFrac))
        zNear == CASE roof.anchor = "front" -> JAdd(Zero, JOr(roof.zOffsetKm, Zero))
                   [] roof.anchor = "back"  -> JAdd(JNeg(Dbase), JOr(roof.zOffsetKm, Zero))
                   [] OTHER -> JAdd(JDiv(JNeg(Dbase), Num(2)), JOr(roof.zOffsetKm, Zero))
    IN  [zNear |-> zNear, zFar |-> JAdd(zNear, Dbase)]

computeRoofZBounds(roof, W) ==
    LET Dbase == MathMax(MinRoofDepthKm,
                         Nullish(roof.depthOverrideKm, JMul(W, roof.depthFrac)))
        zNear == CASE roof.anchor = "front" -> JAdd(Zero, JOr(roof.zOffsetKm, Zero))
                   [] roof.anchor = "back"  -> JAdd(JNeg(Dbase), JOr(roof.zOffsetKm, Zero))
                   [] OTHER -> JAdd(JDiv(JNeg(Dbase), Num(2)), JOr(roof.zOffsetKm, Zero))
    IN  [zNear |-> zNear, zFar |-> JAdd(zNear, Dbase)]

\* a screen-space vector along +Y (world), heightPx pixels long
shelfVectorPx(fit, heightPx) ==
    Bind([a |-> FitProject(fit, Zero, Zero, Zero), b |-> FitProject(fit, Zero, Num(1), Zero)],
         LAMBDA p :
           Bind([dx |-> JSub(p.b.x, p.a.x), dy |-> JSub(p.b.y, p.a.y)],
                LAMBDA v :
                  Bind(JOr(MathHypot(v.dx, v.dy), Num(1)),
                       LAMBDA len : Pt(JMul(JDiv(v.dx, len), heightPx),
                                       JMul(JDiv(v.dy, len), heightPx)))))

addVec(a, b) == Pt(JAdd(a.x, b.x), JAdd(a.y, b.y))

subVec(a, b) == Pt(JSub(a.x, b.x), JSub(a.y, b.y))

\* the world extents of the accumulated profile a
WorldExtents(a, cfg) ==
    LET elevs     == [i \in 1..Len(a.points) |-> a.points[i].elev]
        \* relative elevation span (m -> km for world Y)
        elevMin   == MathMinOf(elevs)
        elevMax   == MathMaxOf(elevs)
        elevSpanM == MathMax(MinElevSpanM, JSub(elevMax, elevMin))
        \* world extents (no shelf in world space)
        W         == MathMax(MinWorldKm, a.totalKm)
        H         == JDiv(elevSpanM, Num(1000))
        z         == computeRoofZBounds(cfg.roof, W)
    IN  [elevMin |-> elevMin, elevSpanM |-> elevSpanM, W |-> W, H |-> H,
         zNear |-> z.zNear, zFar |-> z.zFar]

\* the fitted projector of the world extents e, the shelf pixels reserved
WorldFit(e, cfg) ==
    fitAxonBoundingRangeCentered(
        e.W, e.H, MathMin(e.zNear, e.zFar), MathMax(e.zNear, e.zFar),
        cfg.canvas.width,
        JSub(cfg.canvas.height, JOr(cfg.platform.heightPx, Zero)),
        cfg.canvas.margin, cfg.axon)

\* deriveModel with the world extents taken from absolute elevations: the
\* start elevation is added to every point before the span is measured from 0
deriveModelAbsolute(data, cfg) ==
    Bind(accumulate(data.segments), LAMBDA a0 :
      Bind([a0 EXCEPT !.points =
               <<[d |-> Zero, elev |-> Zero]>> \o
               [i \in 1..Len(a0.points) |->
                   [d |-> a0.points[i].d,
                    elev |-> JAdd(a0.points[i].elev,
                                  Nullish(data.startElevM, Zero))]]], LAMBDA a :
        Bind(WorldExtents(a, cfg), LAMBDA e :
          Bind(WorldFit(e, cfg), LAMBDA proj :
            [derived |-> TRUE,
             worldPts |-> [i \in 1..Len(a0.points) |->
                              [X |-> a0.points[i].d,
                               Y |-> JDiv(JSub(a.points[i + 1].elev, e.elevMin), Num(1000))]],
             totalKm |-> a.totalKm, totalGainM |-> a.totalGainM,
             elevSpanM |-> e.elevSpanM, elevMin |-> e.elevMin,
             W |-> e.W, H |-> e.H, zNear |-> e.zNear, zFar |-> e.zFar,
             proj |-> proj,
             shelfVec |-> shelfVectorPx(proj, JOr(cfg.platform.heightPx, Zero))]))))

\* Derive the rendering model from the input data and config.  The composed
\* projector P of the result is its proj and shelfVec; ModelP applies it.
deriveModel(data, cfg) ==
    Bind(accumulate(data.segments), LAMBDA a :
      Bind(WorldExtents(a, cfg), LAMBDA e :
        Bind(WorldFit(e, cfg), LAMBDA proj :
          [derived |-> TRUE,
           worldPts |-> [i \in 1..Len(a.points) |->
                            [X |-> a.points[i].d,
                             Y |-> JDiv(JSub(a.points[i].elev, e.elevMin), Num(1000))]],
           totalKm |-> a.totalKm, totalGainM |-> a.totalGainM,
           elevSpanM |-> e.elevSpanM, elevMin |-> e.elevMin,
           W |-> e.W, H |-> e.H, zNear |-> e.zNear, zFar |-> e.zFar,
           proj |-> proj,
           shelfVec |-> shelfVectorPx(proj,
                            JOr(cfg.platform.heightPx, Zero))])))

\* the label of the elevation axis at world Y = 0, in km (metric units):
\* 0 without a start elevation, else the absolute elevation there
KM_PER_MI == Fin(25146, 15625)
FT_PER_M == Fin(82021, 25000)
FT_PER_KM == JMul(FT_PER_M, Num(1000))

baseAbsLabel(data, m, isImperial) ==
    IF data.startElevM.k = "undef" THEN Zero
    ELSE Bind(JAdd(data.startElevM, m.elevMin),
              LAMBDA absAtBottomM :
                IF isImperial THEN JMul(absAtBottomM, FT_PER_M)
                ELSE JDiv(absAtBottomM, Num(1000)))

\* the ribbon tiles: worldPts.slice(0, -1).map((_, i) => <polygon ... />),
\* tile i between the world points i and i + 1, filled by the grade of
\* segment i (segments[i]?.grade ?? 0)
RibbonTiles(data, m, cfg) ==
    [i \in 1..(Len(m.worldPts) - 1) |->
        [a |-> i, b |-> i + 1,
         grade |-> IF i <= Len(data.segments)
                   THEN Nullish(data.segments[i].grade, Zero) ELSE Zero,
         fill |-> colorForGrade(
                      IF i <= Len(data.segments)
                      THEN Nullish(data.segments[i].grade, Zero) ELSE Zero,
                      cfg.slopeColors)]]

\* what a render of ProfileChart produces from a model: its ribbon tiles, or
\* nothing when computing an element raised
RenderChart(data, m, cfg) ==
    Bind(RibbonTiles(data, m, cfg) \o <<>>,
         LAMBDA tiles :
           IF \E i \in 1..Len(tiles) : tiles[i].fill = Thrown
           THEN [rendered |-> TRUE, raised |-> TRUE, tiles |-> <<>>]
           ELSE [rendered |-> TRUE, raised |-> FALSE, tiles |-> tiles])

\* P0(X, Y, Z) and P(X, Y, Z) of a derived model
ModelP0(m, X, Y, Z) == FitProject(m.proj, X, Y, Z)

ModelP(m, X, Y, Z) ==
    subVec(ModelP0(m, X, Y, Z),
           Pt(JDiv(m.shelfVec.x, Num(2)), JDiv(m.shelfVec.y, Num(2))))

----------------------------------------------------------------------------
(* Inputs *)

\* segment lengths: quarters of a km, and the degenerate values
KmValues == {Fin(-1, 1), Zero, Fin(1, 4), Num(1), NaN, PInf, Undefined}

\* grades in percent, and the degenerate values
GradeValues == {Num(-5), Zero, Num(1), Num(10), NaN, PInf, NInf}

SegmentValues == [km : KmValues, grade : GradeValues]

SegmentLists == UNION {[1..n -> SegmentValues] : n \in 0..MaxSegs}

\* camera angles (see CosDeg) and scales; an absent scale is undefined
YawAngles == {Num(0), Num(37), Num(127)}

PitchAngles == {Num(0), Num(37), Num(53)}

RollAngles == {Num(0), Num(-37)}

Scales == {Num(i) : i \in 0..MaxScale} \cup {Undefined}

Cameras ==
    [yawDeg : YawAngles, pitchDeg : PitchAngles, rollDeg : RollAngles,
     xScale : Scales \ {Zero}, verticalExaggeration : Scales]

IdentityCamera ==
    [yawDeg |-> Num(0), pitchDeg |-> Num(0), rollDeg |-> Num(0),
     xScale |-> Num(1), verticalExaggeration |-> Num(1)]

\* world coordinates of a point handed to the raw projector
Coords == {Num(-1), Fin(1, 2), Num(2)}

\* world boxes [0,W] x [0,H] x [zMin,zMax], degenerate ones included
BoxWidths == {Num(i) : i \in 0..MaxW}

BoxHeights == {Zero, Fin(1, 10), Num(1)}

BoxDepths == {<<Fin(-1, 5), Zero>>, <<Zero, Zero>>}

\* the cameras of a direct call of the fit
FitCameras ==
    [yawDeg : YawAngles, pitchDeg : PitchAngles, rollDeg : RollAngles,
     xScale : {Num(1), Num(MaxScale)},
     verticalExaggeration : {Zero, Num(MaxScale), Undefined}]

Margin(t, r, b, l) == [top |-> Num(t), right |-> Num(r), bottom |-> Num(b), left |-> Num(l)]

Canvas(w, h, m) == [width |-> Num(w), height |-> Num(h), margin |-> m]

\* a wide canvas, a tall one, and one whose inner rectangle has no width
Canvases ==
    {Canvas(24, 12, Margin(2, 3, 2, 1)),
     Canvas(10, 20, Margin(1, 1, 1, 1)),
     Canvas(4, 12, Margin(1, 2, 1, 2))}

\* the profiles and configs handed to deriveModel
ModelKmValues == {Zero, Num(1)}

ModelGradeValues == {Num(-5), Num(10), PInf}

\* a climb, a descent, a zero-length segment and one with an infinite grade
ModelSegmentValues ==
    {s \in [km : ModelKmValues, grade : ModelGradeValues] :
        s.km = Zero <=> s.grade \in {Num(10), PInf}}
        \cup {[km |-> Num(1), grade |-> Num(10)], [km |-> Num(1), grade |-> NaN]}

ModelSegmentLists == UNION {[1..n -> ModelSegmentValues] : n \in 0..MaxSegs}

Camera(yaw, pitch, roll, xs, ve) ==
    [yawDeg |-> Num(yaw), pitchDeg |-> Num(pitch), rollDeg |-> Num(roll),
     xScale |-> Num(xs), verticalExaggeration |-> Num(ve)]

\* a camera seen from the front, turned ones, and one that flattens the world
ModelCameras ==
    {Camera(0, 37, 0, 1, 1), Camera(37, 37, 0, 1, MaxScale),
     Camera(37, 37, -37, 1, 1), Camera(0, 37, -37, 1, 0)}

ModelCanvases == {Canvas(24, 12, Margin(2, 3, 2, 1)), Canvas(10, 20, Margin(1, 1, 1, 1))}

Roofs ==
    [depthFrac : {Fin(1, 10)}, depthOverrideKm : {Undefined},
     anchor : {"front", "back"}, zOffsetKm : {Zero}]

\* platform.heightPx: 0 .. MaxHeightPx in steps of 2, or absent
Platforms == [heightPx : {Num(2 * i) : i \in 0..MaxHeightPx} \cup {Undefined}]

\* data.startElevM: absent, or an absolute elevation in metres
StartElevs == {Undefined, Num(1500)}

\* the colours of the buckets, by position
ColorNames == <<"#39A7FF", "#1261A0", "#121212", "#D0282F", "#7E0000">>

\* CONFIG.slopeColors
DefaultSlopeColors ==
    <<[upTo |-> Num(4), color |-> ColorNames[1]], [upTo |-> Num(6), color |-> ColorNames[2]],
      [upTo |-> Num(8), color |-> ColorNames[3]], [upTo |-> Num(10), color |-> ColorNames[4]],
      [upTo |-> PInf, color |-> ColorNames[5]]>>

\* configs with the default slope colours, and flat-shelf configs whose
\* slopeColors list is empty
ModelConfigs ==
    [canvas : ModelCanvases, axon : ModelCameras, roof : Roofs, platform : Platforms,
     slopeColors : {DefaultSlopeColors}]
    \cup [canvas : ModelCanvases, axon : ModelCameras, roof : Roofs,
          platform : {[heightPx |-> Zero]}, slopeColors : {<<>>}]

----------------------------------------------------------------------------
(* The accumulator on its own *)

NoCall == [fn |-> "none"]

NoConfig == [units |-> "none"]

NoModel == [derived |-> FALSE]

NoProps == [mounted |-> FALSE]

NoMemo == [filled |-> FALSE]

NoView == [rendered |-> FALSE]
NoHttp == [sent |-> <<>>, responses |-> <<>>]

InitAcc ==
    /\ segments \in SegmentLists
    /\ acc = NoResult
    /\ pc = "idle"
    /\ call = NoCall
    /\ config = NoConfig
    /\ model = NoModel
    /\ props = NoProps
    /\ memo = NoMemo
    /\ view = NoView
    /\ http = NoHttp

\* const { points, totalKm, totalGainM } = accumulate(segments)
CallAccumulate ==
    /\ pc = "idle"
    /\ acc' = accumulate(segments)
    /\ pc' = "accumulated"
    /\ UNCHANGED <<segments, call, config, model>>
    /\ UNCHANGED <<props, memo, view, http>>

\* avgGrade(segments) is called on the same list
CallAvgGrade ==
    /\ call = NoCall
    /\ call' = [fn |-> "avgGrade", out |-> avgGrade(segments)]
    /\ UNCHANGED <<segments, acc, pc, config, model, props, memo, view, http>>

NextAcc == CallAccumulate \/ CallAvgGrade

SpecAcc == InitAcc /\ [][NextAcc]_vars

----------------------------------------------------------------------------
(* The projector and the fit on their own *)

InitFit ==
    /\ segments = <<>>
    /\ acc = NoResult
    /\ pc = "idle"
    /\ call = NoCall
    /\ config = NoConfig
    /\ model = NoModel
    /\ props = NoProps
    /\ memo = NoMemo
    /\ view = NoView
    /\ http = NoHttp

\* axonProject(X, Y, Z, params)
CallAxonProject ==
    \E X \in Coords, Y \in Coords, Z \in Coords, params \in Cameras :
        /\ call = NoCall
        /\ call' = [fn |-> "axonProject", X |-> X, Y |-> Y, Z |-> Z,
                    params |-> params, out |-> axonProject(X, Y, Z, params)]
        /\ UNCHANGED <<segments, acc, pc, config, model>>
        /\ UNCHANGED <<props, memo, view, http>>

\* fitAxonBoundingRangeCentered(W, H, zMin, zMax, width, height, margin, params)
CallFit ==
    \E W \in BoxWidths, H \in BoxHeights, z \in BoxDepths,
       canvas \in Canvases, params \in FitCameras :
        /\ call = NoCall
        /\ call' = [fn |-> "fit", W |-> W, H |-> H, zMin |-> z[1], zMax |-> z[2],
                    canvas |-> canvas, params |-> params,
                    out |-> fitAxonBoundingRangeCentered(
                                W, H, z[1], z[2], canvas.width, canvas.height,
                                canvas.margin, params)]
        /\ UNCHANGED <<segments, acc, pc, config, model>>
        /\ UNCHANGED <<props, memo, view, http>>

NextFit == CallAxonProject \/ CallFit

SpecFit == InitFit /\ [][NextFit]_vars

----------------------------------------------------------------------------
(* Properties of the projector and the fit *)

\* C6: with yaw = pitch = roll = 0, xScale = 1 and verticalExaggeration = 1 the
\* raw projector returns screenX = X and screenY = Y for every finite
\* (X, Y, Z), whatever Z is.
C6_IdentityCameraIsIdentity ==
    (call.fn = "axonProject" /\ call.params = IdentityCamera) =>
        call.out = Pt(call.X, call.Y)

C6_Witness ==
    /\ call.fn = "axonProject"
    /\ call.params = IdentityCamera
    /\ call.X = Fin(1, 2) /\ call.Y = Num(2) /\ call.Z = Num(-1)

\* the inner rectangle of a canvas
InnerLeft(c) == c.margin.left
InnerRight(c) == JSub(c.width, c.margin.right)
InnerTop(c) == c.margin.top
InnerBottom(c) == JSub(c.height, c.margin.bottom)
InnerW(c) == JSub(InnerRight(c), InnerLeft(c))
InnerH(c) == JSub(InnerBottom(c), InnerTop(c))

InsideInner(q, c) ==
    /\ JLe(InnerLeft(c), q.x) /\ JLe(q.x, InnerRight(c))
    /\ JLe(InnerTop(c), q.y) /\ JLe(q.y, InnerBottom(c))

\* the 8 corners of the box of the last fit, through the fitted projector
FittedCorner(i) ==
    LET c == BoxCorners(call.W, call.H, call.zMin, call.zMax)[i]
    IN  FitProject(call.out, c[1], c[2], c[3])

FittedCorners ==
    <<FittedCorner(1), FittedCorner(2), FittedCorner(3), FittedCorner(4),
      FittedCorner(5), FittedCorner(6), FittedCorner(7), FittedCorner(8)>>

\* C7: when the inner rectangle of the canvas has positive width and height,
\* the fitted projector maps all 8 corners of the world box inside it.
C7_FittedCornersInsideInner ==
    (/\ call.fn = "fit"
     /\ JGt(InnerW(call.canvas), Zero)
     /\ JGt(InnerH(call.canvas), Zero)) =>
        \E fc \in {FittedCorners} : \A i \in 1..8 : InsideInner(fc[i], call.canvas)

\* a fit limited by the height of the inner rectangle, of a box with depth,
\* under a camera turned about all three axes
C7_Witness ==
    /\ call.fn = "fit"
    /\ JGt(InnerW(call.canvas), Zero)
    /\ JGt(InnerH(call.canvas), Zero)
    /\ call.params.yawDeg # Num(0)
    /\ call.params.pitchDeg # Num(0)
    /\ call.params.rollDeg # Num(0)
    /\ call.zMin # call.zMax
    /\ \E fc \in {FittedCorners} :
          /\ \E i \in 1..8 : fc[i].y = InnerTop(call.canvas)
          /\ \E i \in 1..8 : fc[i].y = InnerBottom(call.canvas)

Min4(f) ==
    CHOOSE m \in {f[i] : i \in DOMAIN f} : \A i \in DOMAIN f : JLe(m, f[i])

Max4(f) ==
    CHOOSE m \in {f[i] : i \in DOMAIN f} : \A i \in DOMAIN f : JLe(f[i], m)

\* C8: the centre of the screen bounding rectangle of the 8 fitted corners is
\* the centre of the inner rectangle, in x and in y.
C8_FittedBoxIsCentered ==
    call.fn = "fit" =>
        \E fc \in {FittedCorners} :
        LET xs == [i \in 1..8 |-> fc[i].x]
            ys == [i \in 1..8 |-> fc[i].y]
            c  == call.canvas
        IN  /\ JDiv(JAdd(Min4(xs), Max4(xs)), Num(2)) =
                  JAdd(InnerLeft(c), JDiv(InnerW(c), Num(2)))
            /\ JDiv(JAdd(Min4(ys), Max4(ys)), Num(2)) =
                  JAdd(InnerTop(c), JDiv(InnerH(c), Num(2)))

\* a fit whose box is not symmetric about the origin on the screen, under a
\* pitched camera, so that the inverted screen y matters
C8_Witness ==
    /\ call.fn = "fit"
    /\ call.params.pitchDeg = Num(37)
    /\ call.params.yawDeg = Num(127)
    /\ call.H = Num(1)
    /\ call.W # Zero
    /\ call.params.verticalExaggeration = Num(MaxScale)
    /\ JGt(call.out.scale, Zero)

----------------------------------------------------------------------------
(* The model deriver *)

InitModel ==
    /\ segments = <<>>
    /\ acc = NoResult
    /\ pc = "idle"
    /\ call = NoCall
    /\ config = NoConfig
    /\ model = NoModel
    /\ props = NoProps
    /\ memo = NoMemo
    /\ view = NoView
    /\ http = NoHttp

\* const model = deriveModel(data, config)
CallDeriveModel ==
    \E segs \in ModelSegmentLists, start \in StartElevs, cfg \in ModelConfigs :
        /\ pc = "idle"
        /\ segments' = segs
        /\ config' = cfg
        /\ call' = [fn |-> "deriveModel", data |-> [segments |-> segs, startElevM |-> start]]
        /\ model' = deriveModel([segments |-> segs, startElevM |-> start], cfg)
        /\ pc' = "derived"
        /\ UNCHANGED acc
        /\ UNCHANGED <<props, memo, view, http>>

\* the elements of the chart are rendered from the model
RenderProfileChart ==
    /\ pc = "derived"
    /\ view' = RenderChart(call.data, model, config)
    /\ pc' = "rendered"
    /\ UNCHANGED <<segments, acc, call, config, model, props, memo, http>>

NextModel == CallDeriveModel \/ RenderProfileChart

SpecModel == InitModel /\ [][NextModel]_vars

----------------------------------------------------------------------------
(* Properties of deriveModel *)

\* C5: every world point has Y >= 0 and the smallest Y is 0.
C5_RelativeElevationFloor ==
    pc = "derived" =>
        /\ \A i \in 1..Len(model.worldPts) : JLe(Zero, model.worldPts[i].Y)
        /\ \E i \in 1..Len(model.worldPts) : model.worldPts[i].Y = Zero

\* the configured height of the shelf, in pixels (absent reads as 0)
ConfiguredHeightPx == JOr(ToNumber(config.platform.heightPx), Zero)

\* C9: the screen length of the shelf vector is the configured heightPx for
\* every camera and every profile.
C9_ShelfLengthIsHeightPx ==
    pc = "derived" =>
        MathHypot(model.shelfVec.x, model.shelfVec.y) = ConfiguredHeightPx

\* the corners of the world box of the model through the composed projector
\* P, and the same corners lifted by the shelf vector
CompositionPoints ==
    LET cs == BoxCorners(model.W, model.H, model.zNear, model.zFar)
        ps == [i \in 1..Len(cs) |-> ModelP(model, cs[i][1], cs[i][2], cs[i][3])]
    IN  {ps[i] : i \in 1..Len(cs)} \cup {addVec(ps[i], model.shelfVec) : i \in 1..Len(cs)}

\* C10: every point of the composition, with and without the shelf, lies
\* inside the canvas rectangle inset by the margins.
C10_CompositionInsideMargins ==
    pc = "derived" =>
        \A q \in CompositionPoints : InsideInner(q, config.canvas)

\* the smallest and the largest number of a set (NaN when one of them is NaN)
SetMin(S) ==
    IF \E x \in S : IsNaN(x) THEN NaN ELSE CHOOSE m \in S : \A x \in S : JLe(m, x)

SetMax(S) ==
    IF \E x \in S : IsNaN(x) THEN NaN ELSE CHOOSE m \in S : \A x \in S : JLe(x, m)

\* the centre of the bounding rectangle of a set of screen points
BoundsCentre(S) ==
    Pt(JDiv(JAdd(SetMin({q.x : q \in S}), SetMax({q.x : q \in S})), Num(2)),
       JDiv(JAdd(SetMin({q.y : q \in S}), SetMax({q.y : q \in S})), Num(2)))

\* the centre of the inner rectangle of a canvas
InnerCentre(c) ==
    Pt(JAdd(InnerLeft(c), JDiv(InnerW(c), Num(2))),
       JAdd(InnerTop(c), JDiv(InnerH(c), Num(2))))

\* C11: after the centering correction the bounding rectangle of the world-box
\* corners through P, together with the same corners shifted by shelfVec, has
\* its centre at the centre of the canvas inner rectangle, for every
\* heightPx >= 0 and every camera.
C11_CompositionIsCentered ==
    pc = "derived" =>
        \E S \in {CompositionPoints} : BoundsCentre(S) = InnerCentre(config.canvas)

\* C11 for finite profiles without a shelf (explored, not claimed): the
\* composition is centred when heightPx is 0 or absent
CenteredWithoutShelf ==
    (/\ pc = "derived"
     /\ ConfiguredHeightPx = Zero
     /\ \A i \in 1..Len(segments) : IsFinite(segments[i].grade)) =>
        \E S \in {CompositionPoints} : BoundsCentre(S) = InnerCentre(config.canvas)

\* the start elevations a profile is compared with
OtherStartElevs == {Undefined, Num(1200)}

\* C14: for any two profiles that differ only in startElevM (present or
\* absent) and the same config, deriveModel yields the same W, H, zNear, zFar,
\* worldPts, shelfVec and the same projector P; only the labels of the
\* elevation axis differ.
C14_StartElevationLeavesGeometry ==
    pc = "derived" =>
        \A start \in OtherStartElevs :
            \E other \in {deriveModel([call.data EXCEPT !.startElevM = start], config)} :
                /\ other.W = model.W /\ other.H = model.H
                /\ other.zNear = model.zNear /\ other.zFar = model.zFar
                /\ other.worldPts = model.worldPts
                /\ other.shelfVec = model.shelfVec
                /\ other.proj = model.proj

\* a climb with a start elevation, whose label at the foot of the axis is
\* not the label of the same climb without one
C14_Witness ==
    /\ pc = "derived"
    /\ Len(segments) = 2
    /\ call.data.startElevM = Num(1500)
    /\ IsFinite(model.elevMin)
    /\ model.shelfVec # Pt(Zero, Zero)
    /\ baseAbsLabel(call.data, model, FALSE) #
           baseAbsLabel([call.data EXCEPT !.startElevM = Undefined], model, FALSE)

\* every square root the model takes is exact
HypotIsExact ==
    pc = "derived" =>
        LET a == ModelP0(model, Zero, Zero, Zero)
            b == ModelP0(model, Zero, Num(1), Zero)
        IN  /\ HypotExact(JSub(b.x, a.x), JSub(b.y, a.y))
            /\ HypotExact(model.shelfVec.x, model.shelfVec.y)

----------------------------------------------------------------------------
(* Properties of accumulate *)

\* the length and the grade a segment stands for: a negative, NaN or absent
\* length counts as 0, a NaN or absent grade counts as 0
UsedLen(s) ==
    IF s.km.k = "pinf" THEN PInf
    ELSE IF s.km.k = "fin" /\ s.km.n > 0 THEN s.km
    ELSE Zero

UsedGrade(s) == IF s.grade.k \in {"nan", "undef"} THEN Zero ELSE s.grade

UsedRise(s) == JMul(JMul(UsedLen(s), UsedGrade(s)), Num(10))

ElevsOf(points) == [i \in 1..Len(points) |-> points[i].elev]

Seg(km, grade) == [km |-> km, grade |-> grade]

ExampleClimb == <<Seg(Num(1), Num(10)), Seg(Num(1), Num(-5))>>

RECURSIVE PositiveRiseSum(_)
PositiveRiseSum(segs) ==
    IF segs = <<>> THEN Zero
    ELSE LET r == UsedRise(Head(segs))
         IN  IF JGt(r, Zero) THEN JAdd(r, PositiveRiseSum(Tail(segs)))
             ELSE PositiveRiseSum(Tail(segs))

\* C2: totalGainM is the rounded sum of the strictly positive rises only, so
\* it is >= 0 and >= the rounded final cumulative elevation.
C2_GainIsPositiveRiseSum ==
    pc = "accumulated" =>
        /\ acc.totalGainM = MathRound(PositiveRiseSum(segments))
        /\ JLe(Zero, acc.totalGainM)
        /\ JLe(MathRound(acc.points[Len(acc.points)].elev), acc.totalGainM)

\* the length of a segment with only a negative length counted as 0
LenNegativeAsZero(s) ==
    LET km == ToNumber(s.km) IN IF JLt(km, Zero) THEN Zero ELSE km

\* the length of a segment with a negative, NaN or absent length counted as 0
LenNegativeOrNaNAsZero(s) ==
    LET km == ToNumber(s.km) IN IF JLt(km, Zero) \/ IsNaN(km) THEN Zero ELSE km

RECURSIVE SumOver(_, _)
SumOver(Op(_), segs) ==
    IF segs = <<>> THEN Zero ELSE JAdd(Op(Head(segs)), SumOver(Op, Tail(segs)))

DistanceNonDecreasing ==
    \A i \in 1..(Len(acc.points) - 1) : JLe(acc.points[i].d, acc.points[i + 1].d)

\* C3 (as stated): the d values never decrease and the last d is totalKm, the
\* sum of the segment lengths with each negative length counted as 0.
C3_DistanceEndsAtSumNegativeAsZero ==
    pc = "accumulated" =>
        /\ DistanceNonDecreasing
        /\ acc.points[Len(acc.points)].d = acc.totalKm
        /\ acc.totalKm = SumOver(LenNegativeAsZero, segments)

\* C3 (amended): the d values never decrease and the last d is totalKm, the
\* sum of the segment lengths with each negative, NaN or absent length
\* counted as 0.
C3_DistanceEndsAtSum ==
    pc = "accumulated" =>
        /\ DistanceNonDecreasing
        /\ acc.points[Len(acc.points)].d = acc.totalKm
        /\ acc.totalKm = SumOver(LenNegativeOrNaNAsZero, segments)

C3_Witness ==
    /\ pc = "accumulated"
    /\ \E i, j \in 1..Len(segments) :
          /\ JLt(ToNumber(segments[i].km), Zero)
          /\ JGt(ToNumber(segments[j].km), Zero)
    /\ JGt(acc.totalKm, Zero)

\* C4: a segment with a negative or NaN length adds 0 to the distance, and a
\* segment with a non-finite grade (NaN, +Infinity, -Infinity) adds 0 to the
\* cumulative elevation and to the gain.
C4_SanitizesLengthAndGrade ==
    pc = "accumulated" =>
        \A i \in 1..Len(segments) :
            LET km    == ToNumber(segments[i].km)
                grade == ToNumber(segments[i].grade)
            IN  /\ (JLt(km, Zero) \/ IsNaN(km)) =>
                      acc.points[i + 1].d = acc.points[i].d
                /\ ~IsFinite(grade) =>
                      /\ acc.points[i + 1].elev = acc.points[i].elev
                      /\ acc.totalGainM =
                            MathRound(PositiveRiseSum(
                                [j \in 1..Len(segments) |->
                                    IF j = i THEN Seg(segments[j].km, Zero)
                                    ELSE segments[j]]))

----------------------------------------------------------------------------
(* The pure helpers on their own *)

\* bucket limits, in percent
UpToValues == {Num(4), Num(8), PInf}

\* slopeColors lists of up to MaxBuckets buckets, each with its own colour;
\* the empty list and unsorted lists are among them
BucketLists ==
    UNION {{[i \in 1..n |-> [upTo |-> f[i], color |-> ColorNames[i]]] :
               f \in [1..n -> UpToValues]} : n \in 0..MaxBuckets}

\* grades handed to colorForGrade: on, next to and beyond the limits
BucketGrades ==
    {Num(-5), Num(4), Fin(401, 100), Num(8), Fin(801, 100), Num(100), NaN, PInf, NInf}

\* ranges handed to niceStep: a few mantissas in every decade, and the
\* values that are not a positive finite number
RangeMantissas == {Num(1), Fin(3, 2), Num(3), Fin(15, 4), Fin(97, 10)}

RangeValues ==
    {JMul(m, Pow10(e)) : m \in RangeMantissas, e \in (-MaxRangeExp)..MaxRangeExp}
        \cup {Zero, Num(-3), PInf}

\* tick counts handed to niceStep; an absent grid.elevLines is undefined
TickValues == {Num(i) : i \in -1..MaxTicks} \cup {Fin(1, 2), NaN, PInf, Undefined}

\* roofs handed to computeRoofZBounds: every anchor and an unknown one, a
\* depth override that is null, zero, negative or positive
HelperRoofs ==
    [depthFrac : {Zero, Fin(1, 10)},
     depthOverrideKm : {Undefined, Zero, Num(-1), Fin(1, 2)},
     anchor : {"front", "back", "center", "middle"},
     zOffsetKm : {Zero, Fin(1, 4), Num(-1)}]

\* world widths: the floor 0.001 km and whole kilometres
RoofWidths == {MinWorldKm} \cup {Num(i) : i \in 1..MaxW}

InitHelpers ==
    /\ segments = <<>>
    /\ acc = NoResult
    /\ pc = "idle"
    /\ call = NoCall
    /\ config = NoConfig
    /\ model = NoModel
    /\ props = NoProps
    /\ memo = NoMemo
    /\ view = NoView
    /\ http = NoHttp

\* colorForGrade(g, buckets)
CallColorForGrade ==
    \E g \in BucketGrades, buckets \in BucketLists :
        /\ call = NoCall
        /\ call' = [fn |-> "colorForGrade", g |-> g, buckets |-> buckets,
                    out |-> colorForGrade(g, buckets)]
        /\ UNCHANGED <<segments, acc, pc, config, model>>
        /\ UNCHANGED <<props, memo, view, http>>

\* niceStep(range, maxTicks)
CallNiceStep ==
    \E range \in RangeValues, maxTicks \in TickValues :
        /\ call = NoCall
        /\ call' = [fn |-> "niceStep", range |-> range, maxTicks |-> maxTicks,
                    out |-> niceStep(range, maxTicks)]
        /\ UNCHANGED <<segments, acc, pc, config, model>>
        /\ UNCHANGED <<props, memo, view, http>>

\* computeRoofZBounds(roof, W)
CallComputeRoofZBounds ==
    \E roof \in HelperRoofs, W \in RoofWidths :
        /\ call = NoCall
        /\ call' = [fn |-> "computeRoofZBounds", roof |-> roof, W |-> W,
                    out |-> computeRoofZBounds(roof, W)]
        /\ UNCHANGED <<segments, acc, pc, config, model>>
        /\ UNCHANGED <<props, memo, view, http>>

NextHelpers == CallColorForGrade \/ CallNiceStep \/ CallComputeRoofZBounds

SpecHelpers == InitHelpers /\ [][NextHelpers]_vars

----------------------------------------------------------------------------
(* Properties of the pure helpers *)

\* the upTo limits of a bucket list ascend
SortedBuckets(buckets) ==
    \A i \in 1..(Len(buckets) - 1) : JLe(buckets[i].upTo, buckets[i + 1].upTo)

\* the buckets whose limit is at least g
BucketsAtLeast(g, buckets) == {i \in 1..Len(buckets) : JLe(g, buckets[i].upTo)}

\* C12: for every grade g and every non-empty bucket list sorted by ascending
\* upTo, colorForGrade returns the colour of the first bucket with upTo >= g,
\* and the colour of the last bucket when no bucket has upTo >= g (also when
\* the last limit is finite); boundaries are inclusive.
C12_FirstBucketAtLeastGrade ==
    (/\ call.fn = "colorForGrade"
     /\ call.buckets # <<>>
     /\ SortedBuckets(call.buckets)) =>
        LET hits == BucketsAtLeast(call.g, call.buckets)
        IN  /\ hits # {} =>
                  \E i \in hits : /\ \A j \in hits : i <= j
                                   /\ call.out = call.buckets[i].color
            /\ hits = {} => call.out = call.buckets[Len(call.buckets)].color

\* the grade is exactly the limit of the first bucket of a sorted list
\* 4, 8, Infinity, and the first colour is returned
C12_Witness ==
    /\ call.fn = "colorForGrade"
    /\ Len(call.buckets) = 3
    /\ call.buckets[1].upTo = Num(4)
    /\ call.buckets[2].upTo = Num(8)
    /\ call.buckets[3].upTo = PInf
    /\ call.g = Num(4)
    /\ call.out = ColorNames[1]

\* the examples of the bucket list 4, 8, Infinity: 4.01 falls in the second
\* bucket and 100 in the third (a sanity check of the model)
BucketExamples ==
    (/\ call.fn = "colorForGrade"
     /\ Len(call.buckets) = 3
     /\ call.buckets[1].upTo = Num(4)
     /\ call.buckets[2].upTo = Num(8)
     /\ call.buckets[3].upTo = PInf) =>
        /\ call.g = Fin(401, 100) => call.out = ColorNames[2]
        /\ call.g = Num(100) => call.out = ColorNames[3]
        /\ call.g = Num(4) => call.out = ColorNames[1]

\* a grade above every finite limit takes the last colour
LastBucketWhenNoneMatches ==
    (/\ call.fn = "colorForGrade"
     /\ call.buckets # <<>>
     /\ \A i \in 1..Len(call.buckets) : ~JLe(call.g, call.buckets[i].upTo)) =>
        call.out = call.buckets[Len(call.buckets)].color

\* the values m x 10^k, m in {1, 2, 2.5, 5, 10}, of the decades around the
\* ranges of the model
NiceExponents == (-(MaxRangeExp + 2))..(MaxRangeExp + 1)

NiceValues ==
    {JMul(NiceMultipliers[i], Pow10(k)) : i \in 1..Len(NiceMultipliers), k \in NiceExponents}

\* range / max(1, maxTicks) of the last call of niceStep
RoughStep == JDiv(call.range, MathMax(Num(1), ToNumber(call.maxTicks)))

\* the result is a nice value and no nice value is strictly closer to rough
NearestNiceValue(out, rough) ==
    /\ out \in NiceValues
    /\ \A v \in NiceValues :
          ~JLt(MathAbs(JSub(v, rough)), MathAbs(JSub(out, rough)))

\* C13 as stated: for every range > 0 and every maxTicks, niceStep returns a
\* value m x 10^k with m in {1, 2, 2.5, 5, 10} and integer k, and no other
\* value of that form is strictly closer to range / max(1, maxTicks).
C13_NearestNiceStepEveryNumber ==
    (call.fn = "niceStep" /\ JGt(call.range, Zero)) =>
        NearestNiceValue(call.out, RoughStep)

\* C13, amended: the same for every finite range > 0 and every finite
\* maxTicks.
C13_NearestNiceStep ==
    (/\ call.fn = "niceStep"
     /\ JGt(call.range, Zero) /\ IsFinite(call.range)
     /\ IsFinite(ToNumber(call.maxTicks))) =>
        NearestNiceValue(call.out, RoughStep)

\* niceStep(97, 8) = 10
C13_Witness ==
    /\ call.fn = "niceStep"
    /\ call.range = Num(97)
    /\ call.maxTicks = Num(8)
    /\ call.out = Num(10)

\* a tie between two candidates keeps the earlier one: niceStep(1.5, 1) = 1
NiceStepTieKeepsFirst ==
    (call.fn = "niceStep" /\ call.range = Fin(3, 2) /\ call.maxTicks = Num(1)) =>
        call.out = Num(1)

\* maxTicks below 1 counts as 1
NiceStepFewTicks ==
    (/\ call.fn = "niceStep" /\ IsFinite(call.range)
     /\ IsFinite(ToNumber(call.maxTicks)) /\ JLe(call.maxTicks, Num(1))) =>
        call.out = niceStep(call.range, Num(1))

----------------------------------------------------------------------------
(* Properties of the render *)

\* the divisors of the pipeline are kept away from zero
DivisorsClamped ==
    /\ JLe(MinWorldKm, model.W)
    /\ JLe(MinElevSpanM, model.elevSpanM)
    /\ JLe(MinRoofDepthKm, JSub(model.zFar, model.zNear))
    /\ IsFinite(model.proj.scale)

\* C15: for every profile (empty, zero-length segments, flat) and every config
\* of the documented shape (heightPx 0, an empty slopeColors list), accumulate,
\* deriveModel and the rendering of every element complete without raising
\* and without dividing by zero.
C15_PipelineNeverRaises ==
    pc = "rendered" => (~view.raised /\ DivisorsClamped)

\* with at least one slope colour and finite grades nothing raises and no
\* divisor is zero
NeverRaisesWithColours ==
    (/\ pc = "rendered"
     /\ config.slopeColors # <<>>
     /\ \A i \in 1..Len(segments) : IsFinite(segments[i].grade)) =>
        (~view.raised /\ DivisorsClamped)

\* the colour of the first bucket whose limit is at least g, of the last
\* bucket when there is none
BucketColour(g, buckets) ==
    LET hits == BucketsAtLeast(g, buckets)
    IN  IF hits = {} THEN buckets[Len(buckets)].color
        ELSE buckets[CHOOSE i \in hits : \A j \in hits : i <= j].color

\* one tile per segment, tile i between the world points i and i + 1 and
\* filled by the grade of segment i
TilesFollowSegments ==
    /\ Len(view.tiles) = Len(segments)
    /\ Len(model.worldPts) = Len(segments) + 1
    /\ \A i \in 1..Len(view.tiles) :
          /\ view.tiles[i].a = i /\ view.tiles[i].b = i + 1
          /\ view.tiles[i].fill = BucketColour(segments[i].grade, config.slopeColors)

\* C18: the renderer emits exactly one ribbon tile per segment, tile i
\* spanning the world points i and i + 1 and filled with colorForGrade(grade
\* of segment i, config.slopeColors); the profile [{km 1, grade 10}] with the
\* default slope colours gives a single tile in the bucket with upTo = 10,
\* with W = 1, H = 0.1 and totalGainM = 100.
C18_OneTilePerSegment ==
    pc = "rendered" =>
        /\ TilesFollowSegments
        /\ (segments = <<[km |-> Num(1), grade |-> Num(10)]>>
              /\ config.slopeColors = DefaultSlopeColors) =>
               /\ Len(view.tiles) = 1
               /\ view.tiles[1].fill = DefaultSlopeColors[4].color
               /\ model.W = Num(1) /\ model.H = Fin(1, 10)
               /\ model.totalGainM = Num(100)

\* the same with at least one slope colour
OneTilePerSegmentWithColours ==
    (pc = "rendered" /\ config.slopeColors # <<>>) =>
        /\ TilesFollowSegments
        /\ segments = <<[km |-> Num(1), grade |-> Num(10)]>> =>
               /\ Len(view.tiles) = 1
               /\ view.tiles[1].fill = DefaultSlopeColors[4].color
               /\ model.W = Num(1) /\ model.H = Fin(1, 10)
               /\ model.totalGainM = Num(100)

\* the thickness D = max(0.01, depthOverrideKm when it is not null, else
\* W x depthFrac)
RoofThickness(roof, W) ==
    LET want == IF roof.depthOverrideKm.k # "undef" THEN roof.depthOverrideKm
                ELSE JMul(W, roof.depthFrac)
    IN  IF JLt(want, Fin(1, 100)) THEN Fin(1, 100) ELSE want

\* C20: computeRoofZBounds places zNear = zOffset for anchor 'front',
\* -D + zOffset for 'back' and -D/2 + zOffset for 'center' and for any other
\* anchor; in every case zFar = zNear + D, so zFar - zNear = D >= 0.01, also
\* for a depth override of 0 or less.
C20_RoofBoundsByAnchor ==
    call.fn = "computeRoofZBounds" =>
        \E D \in {RoofThickness(call.roof, call.W)} :
            /\ call.roof.anchor = "front" => call.out.zNear = call.roof.zOffsetKm
            /\ call.roof.anchor = "back" =>
                  call.out.zNear = JSub(call.roof.zOffsetKm, D)
            /\ call.roof.anchor \notin {"front", "back"} =>
                  call.out.zNear = JSub(call.roof.zOffsetKm, JDiv(D, Num(2)))
            /\ call.out.zFar = JAdd(call.out.zNear, D)
            /\ JSub(call.out.zFar, call.out.zNear) = D
            /\ JLe(Fin(1, 100), D)

\* an unknown anchor with a negative depth override: the ribbon is 0.01 km
\* thick and centred on the offset
C20_Witness ==
    /\ call.fn = "computeRoofZBounds"
    /\ call.roof.anchor = "middle"
    /\ call.roof.depthOverrideKm = Num(-1)
    /\ call.roof.zOffsetKm = Fin(1, 4)
    /\ call.out.zNear = Fin(49, 200)
    /\ call.out.zFar = Fin(51, 200)

----------------------------------------------------------------------------
(* ClientApp and the memoized model of ProfileChart *)

\* an object handed down as a prop: its identity and its content
Obj(ref, val) == [set |-> TRUE, ref |-> ref, val |-> val]

\* const [data, setData] = React.useState<ClimbData>(): undefined at first
NoData == [set |-> FALSE]

\* the config ClientApp is given
BaseConfig ==
    [canvas |-> Canvas(24, 12, Margin(2, 3, 2, 1)), axon |-> Camera(0, 37, 0, 1, 1),
     roof |-> [depthFrac |-> Fin(1, 10), depthOverrideKm |-> Undefined,
               anchor |-> "back", zOffsetKm |-> Zero],
     platform |-> [heightPx |-> Zero], slopeColors |-> DefaultSlopeColors,
     units |-> "metric"]

\* the profiles setData is called with
RenderProfiles ==
    {[segments |-> <<[km |-> Num(1), grade |-> Num(10)]>>, startElevM |-> Undefined],
     [segments |-> <<[km |-> Num(1), grade |-> Num(-5)]>>, startElevM |-> Undefined]}

\* the values of the Leva controls
ControlValues ==
    [yawDeg : {Num(0), Num(37)}, verticalExaggeration : {Num(1), Num(MaxScale)},
     platformHeightPx : {Zero, Num(2)}, units : {"metric", "imperial"}]

\* the body of liveConfig's useMemo
LiveConfig(cfg, c) ==
    [cfg EXCEPT !.units = c.units,
                !.axon = [cfg.axon EXCEPT !.yawDeg = c.yawDeg,
                                          !.verticalExaggeration = c.verticalExaggeration],
                !.platform = [cfg.platform EXCEPT !.heightPx = c.platformHeightPx]]

\* the controls as they stand in a config
ControlsOf(cfg) ==
    [yawDeg |-> cfg.axon.yawDeg, verticalExaggeration |-> cfg.axon.verticalExaggeration,
     platformHeightPx |-> cfg.platform.heightPx, units |-> cfg.units]

\* useMemo with the deps of the first prop alone: [data]
DepsChangedDataOnly(cell, deps) == ~cell.filled \/ cell.deps[1] # deps[1]

\* useMemo(..., [data, config]): the value is computed again when the cell is
\* empty or a dep is not the object (Object.is) it was computed from
DepsChanged(cell, deps) ==
    ~cell.filled \/ \E i \in 1..Len(deps) : cell.deps[i] # deps[i]

InitRender ==
    /\ segments = <<>>
    /\ acc = NoResult
    /\ pc = "idle"
    /\ call = NoCall
    /\ config = NoConfig
    /\ model = NoModel
    /\ props = [mounted |-> TRUE, data |-> NoData, config |-> Obj(0, BaseConfig), next |-> 1]
    /\ memo = NoMemo
    /\ view = NoView
    /\ http = NoHttp

\* setData(...): the profile is replaced by a new object
SetData ==
    \E d \in RenderProfiles :
        /\ props.next <= MaxObjects
        /\ props' = [props EXCEPT !.data = Obj(props.next, d), !.next = props.next + 1]
        /\ UNCHANGED <<segments, acc, pc, call, config, model, memo, view, http>>

\* a control changes: liveConfig's useMemo returns a new object
ChangeControl ==
    \E c \in ControlValues :
        /\ props.next <= MaxObjects
        /\ c # ControlsOf(props.config.val)
        /\ \E f \in DOMAIN c : \A g \in DOMAIN c \ {f} : c[g] = ControlsOf(props.config.val)[g]
        /\ props' = [props EXCEPT !.config = Obj(props.next, LiveConfig(props.config.val, c)),
                                  !.next = props.next + 1]
        /\ UNCHANGED <<segments, acc, pc, call, config, model, memo, view, http>>

\* ClientApp renders ProfileChart with data and liveConfig (nothing while the
\* data is undefined); ProfileChart takes its model from useMemo
Render ==
    /\ props.data.set
    /\ \E deps \in {<<props.data.ref, props.config.ref>>} :
         \E stale \in {DepsChanged(memo, deps)} :
          \E m \in {IF stale THEN deriveModel(props.data.val, props.config.val)
                     ELSE memo.value} :
            /\ memo' = [filled |-> TRUE, deps |-> deps, value |-> m]
            /\ view' = [rendered |-> TRUE, model |-> m, data |-> props.data,
                        config |-> props.config, reused |-> ~stale,
                        prevDeps |-> IF memo.filled THEN memo.deps ELSE <<>>]
    /\ UNCHANGED <<segments, acc, pc, call, config, model, props, http>>

NextRender == SetData \/ ChangeControl \/ Render

SpecRender == InitRender /\ [][NextRender]_vars

\* C19: after any sequence of profile and config replacements the model used
\* by a render is the one derived from the profile and config of that same
\* render, and the memoized model is reused only when both inputs are the
\* objects it was derived from.
C19_RenderUsesOwnModel ==
    view.rendered =>
        /\ view.model = deriveModel(view.data.val, view.config.val)
        /\ view.reused => view.prevDeps = <<view.data.ref, view.config.ref>>
        /\ memo.value = view.model
        /\ memo.deps = <<view.data.ref, view.config.ref>>

\* a render that derived its model again after a control changed, a memoized
\* model of the same profile under the old config being there
C19_Witness ==
    /\ view.rendered
    /\ ~view.reused
    /\ view.prevDeps # <<>>
    /\ view.prevDeps[1] = view.data.ref
    /\ view.prevDeps[2] # view.config.ref
    /\ view.config.val.axon.yawDeg = Num(37)

\* a render with unchanged props reuses the memoized model
RenderReusesModel ==
    (view.rendered /\ view.prevDeps = <<view.data.ref, view.config.ref>>) => view.reused

----------------------------------------------------------------------------
(* The segment route: GET /api/strava/segment/[id] *)

Digits == {"0", "1", "2", "3", "4", "5", "6", "7", "8", "9"}

\* params.id, a string given by its characters, or undefined
Id(chars) == [present |-> TRUE, chars |-> chars]
NoId == [present |-> FALSE, chars |-> <<>>]

\* /^\d+$/.test(id)
RegexDigits(chars) == Len(chars) > 0 /\ \A i \in 1..Len(chars) : chars[i] \in Digits

\* an id check satisfied by any non-empty string
ValidIdNonEmpty(id) == id.present /\ id.chars # <<>>

\* the negation of line 19: !id || !/^\d+$/.test(id)
ValidId(id) == ~(~id.present \/ id.chars = <<>> \/ ~RegexDigits(id.chars))

\* the Authorization header: absent (null), or a scheme, the white space after
\* it and the rest of the line
NoHeader == [present |-> FALSE, scheme |-> "", spaces |-> 0, rest |-> ""]
Header(scheme, spaces, rest) ==
    [present |-> TRUE, scheme |-> scheme, spaces |-> spaces, rest |-> rest]

\* extractBearer with a case-sensitive scheme
extractBearerCaseSensitive(authHeader) ==
    IF authHeader.present /\ authHeader.scheme = "Bearer"
       /\ authHeader.spaces >= 1 /\ authHeader.rest # ""
    THEN authHeader.rest
    ELSE ""

\* extractBearer: m[1] of /^Bearer\s+(.+)$/i, "" standing for null (the group
\* matches one character at least)
extractBearer(authHeader) ==
    IF ~authHeader.present THEN ""
    ELSE IF /\ authHeader.scheme \in {"Bearer", "bearer", "BEARER"}
            /\ authHeader.spaces >= 1
            /\ authHeader.rest # ""
         THEN authHeader.rest
         ELSE ""

\* response.ok
Ok(status) == status \in 200..299

\* what NextResponse.json(body, { status }) does: the Response constructor
\* raises a RangeError outside 200..599 and a TypeError for a body with a null
\* body status
NullBodyStatuses == {101, 103, 204, 205, 304}
NextResponseJson(body, status) ==
    IF status \in 200..599 /\ status \notin NullBodyStatuses
    THEN [threw |-> FALSE, response |-> [status |-> status, body |-> body]]
    ELSE [threw |-> TRUE, response |-> [status |-> status, body |-> body]]

\* the catch block of GET
Caught(message) ==
    [status |-> 500, body |-> [error |-> "Unexpected error", message |-> message]]

\* what a fetch comes back with: a rejection, or a Response with its status
\* and what its json() gives
Rejected == [net |-> "reject", status |-> 0, json |-> [parsed |-> FALSE, value |-> [shape |-> "none"]]]
Answer(status, json) == [net |-> "answer", status |-> status, json |-> json]
Unparsable == [parsed |-> FALSE, value |-> [shape |-> "none"]]
Json(value) == [parsed |-> TRUE, value |-> value]
JsonNull == [shape |-> "null"]

\* safeJson
safeJson(r) == IF r.json.parsed THEN r.json.value ELSE [shape |-> "status", status |-> r.status]

\* the streams of a streams answer
NoStream == [has |-> FALSE, data |-> [arr |-> FALSE, items |-> <<>>]]
Stream(data) == [has |-> TRUE, data |-> data]
NoArray == [arr |-> FALSE, items |-> <<>>]
Array(items) == [arr |-> TRUE, items |-> items]
EmptyStreamObj == [distance |-> NoStream, altitude |-> NoStream, latlng |-> NoStream]

\* the loop of normalizeStreams over the array shape
NormalizeItem(out, s) ==
    IF ~s.has \/ s.type = "" THEN out
    ELSE IF s.type \in {"distance", "altitude", "latlng"}
         THEN [out EXCEPT ![s.type] = Stream(s.data)]
         ELSE out

RECURSIVE NormalizeLoop(_, _, _)
NormalizeLoop(out, raw, i) ==
    IF i > Len(raw) THEN out
    ELSE Bind(NormalizeItem(out, raw[i]), LAMBDA o : NormalizeLoop(o, raw, i + 1))

normalizeStreams(raw) ==
    IF raw.shape = "keyed"
    THEN [distance |-> raw.distance, altitude |-> raw.altitude, latlng |-> raw.latlng]
    ELSE IF raw.shape = "array" THEN NormalizeLoop(EmptyStreamObj, raw.items, 1)
    ELSE EmptyStreamObj

\* stream?.data?.length as a condition
HasLength(stream) == stream.has /\ stream.data.arr /\ Len(stream.data.items) > 0

\* the inputs of a request
IdValues ==
    {NoId, Id(<<>>), Id(<<"a", "b", "c">>), Id(<<"1", "2", "a">>), Id(<<"-", "1">>),
     Id(<<"1", ".", "5">>), Id(<<"7">>), Id(<<"2", "2", "9", "7", "8", "1">>)}
AuthHeaders ==
    {NoHeader, Header("Bearer", 1, "tok"), Header("bearer", 1, "tok"),
     Header("Basic", 1, "dXNlcg"), Header("Bearer", 1, "")}
Environments ==
    {[cid |-> "id", cs |-> "secret", refresh |-> "refresh"],
     [cid |-> "id", cs |-> "secret", refresh |-> ""],
     [cid |-> "", cs |-> "", refresh |-> ""]}

\* the statuses of upstream answers
UpstreamStatuses == {200, 304, 401, 404, 429, 500}

TokenAnswers ==
    {Rejected, Answer(200, Unparsable), Answer(200, Json(JsonNull)),
     Answer(200, Json([shape |-> "object", access_token |-> "fresh"])),
     Answer(200, Json([shape |-> "object", access_token |-> "undefined"])),
     Answer(401, Json([shape |-> "object", access_token |-> "undefined"])),
     Answer(500, Unparsable)}

SegmentJsons ==
    {Unparsable, Json(JsonNull), Json([shape |-> "object", id |-> 229781, name |-> "climb"])}
SegmentAnswers == {Rejected} \cup {Answer(st, j) : st \in UpstreamStatuses, j \in SegmentJsons}

StreamDatas == {NoArray, Array(<<>>), Array(<<0, 1000>>)}
StreamChoices == {NoStream} \cup {Stream(d) : d \in StreamDatas}
Item(type, data) == [has |-> TRUE, type |-> type, data |-> data]
NullItem == [has |-> FALSE, type |-> "", data |-> NoArray]
StreamsRaws ==
    {JsonNull}
    \cup {[shape |-> "keyed", distance |-> d, altitude |-> a, latlng |-> NoStream] :
            d \in StreamChoices, a \in StreamChoices}
    \cup {[shape |-> "array", items |-> it] :
            it \in {<<>>,
                    <<Item("distance", Array(<<0, 1000>>)), Item("altitude", Array(<<10, 60>>))>>,
                    <<Item("altitude", Array(<<10, 60>>))>>,
                    <<NullItem, Item("distance", Array(<<0, 1000>>)),
                      Item("altitude", Array(<<10, 60>>)), Item("distance", Array(<<>>))>>,
                    <<Item("distance", NoArray), Item("altitude", Array(<<10, 60>>))>>}}
StreamsAnswers ==
    {Rejected, Answer(200, Unparsable)}
    \cup {Answer(st, Unparsable) : st \in UpstreamStatuses \ {200}}
    \cup {Answer(200, Json(raw)) : raw \in StreamsRaws}

InitRoute ==
    /\ segments = <<>>
    /\ acc = NoResult
    /\ pc = "idle"
    /\ call = NoCall
    /\ config = NoConfig
    /\ model = NoModel
    /\ props = NoProps
    /\ memo = NoMemo
    /\ view = NoView
    /\ http = NoHttp

\* the request state at the start of GET
Started ==
    [sent |-> <<>>, responses |-> <<>>, accessToken |-> "", thrown |-> "",
     tokenRes |-> Rejected, segRes |-> Rejected, streamsRes |-> Rejected,
     got |-> {}]

\* the handler ends with a response
Respond(h, r) == [h EXCEPT !.responses = Append(@, r)]

\* an error is thrown inside the try block: the catch block answers
Throw(h, message) == Respond([h EXCEPT !.thrown = message], Caught(message))

\* a return NextResponse.json(body, { status }) inside the try block
ReturnJson(h, body, status) ==
    Bind(NextResponseJson(body, status),
         LAMBDA r : IF r.threw THEN Throw(h, "Invalid response status code")
                    ELSE Respond(h, r.response))

\* stravaFetch(path, accessToken) is issued
Fetch(h, what) == [h EXCEPT !.sent = Append(@, what)]

\* GET up to its first outbound request: the id check, then the token from the
\* header or the first half of getServiceAccessToken
GETBegin ==
    /\ pc = "idle"
    /\ \E id \in IdValues, authHeader \in AuthHeaders, env \in Environments :
         /\ call' = [fn |-> "GET", id |-> id, authorization |-> authHeader, env |-> env]
         /\ IF ~ValidId(id)
            THEN /\ http' = Respond(Started, [status |-> 400,
                                 body |-> [error |-> "Invalid or missing segment id"]])
                 /\ pc' = "done"
            ELSE \E tokenFromHeader \in {extractBearer(authHeader)} :
                   IF tokenFromHeader # ""
                   THEN /\ http' = Fetch([Started EXCEPT !.accessToken = tokenFromHeader],
                                         "segment")
                        /\ pc' = "segment"
                   ELSE IF env.cid = "" \/ env.cs = "" \/ env.refresh = ""
                        THEN /\ http' = Throw(Started, "Missing STRAVA_CLIENT_ID / STRAVA_CLIENT_SECRET / STRAVA_REFRESH_TOKEN")
                             /\ pc' = "done"
                        ELSE /\ http' = Fetch(Started, "token")
                             /\ pc' = "token"
    /\ UNCHANGED <<segments, acc, config, model, props, memo, view>>

\* the token refresh comes back: the rest of getServiceAccessToken, then the
\* segment request is issued
TokenAnswer ==
    /\ pc = "token"
    /\ \E resp \in TokenAnswers :
        \E h \in {[http EXCEPT !.tokenRes = resp, !.got = @ \cup {"token"}]} :
         IF resp.net = "reject"
         THEN http' = Throw(h, "fetch failed") /\ pc' = "done"
         ELSE IF ~Ok(resp.status)
         THEN http' = Throw(h, "Failed to refresh Strava token") /\ pc' = "done"
         ELSE IF ~resp.json.parsed
         THEN http' = Throw(h, "Unexpected token in JSON") /\ pc' = "done"
         ELSE IF resp.json.value.shape = "null"
         THEN http' = Throw(h, "Cannot read properties of null") /\ pc' = "done"
         ELSE /\ http' = Fetch([h EXCEPT !.accessToken = resp.json.value.access_token],
                               "segment")
              /\ pc' = "segment"
    /\ UNCHANGED <<segments, acc, call, config, model, props, memo, view>>

\* the segment request comes back
SegmentAnswer ==
    /\ pc = "segment"
    /\ \E segRes \in SegmentAnswers :
        \E h \in {[http EXCEPT !.segRes = segRes, !.got = @ \cup {"segment"}]} :
         IF segRes.net = "reject"
         THEN http' = Throw(h, "fetch failed") /\ pc' = "done"
         ELSE IF ~Ok(segRes.status)
         THEN /\ http' = ReturnJson(h, [error |-> "Failed to fetch segment",
                                        details |-> safeJson(segRes)], segRes.status)
              /\ pc' = "done"
         ELSE IF ~segRes.json.parsed
         THEN http' = Throw(h, "Unexpected token in JSON") /\ pc' = "done"
         ELSE /\ http' = Fetch(h, "streams")
              /\ pc' = "streams"
    /\ UNCHANGED <<segments, acc, call, config, model, props, memo, view>>

\* the body of the answer with the profile
ProfileBody(segment, streams) ==
    [id |-> segment.id, name |-> segment.name,
     profile |-> [distance |-> streams.distance.data.items,
                  altitude |-> streams.altitude.data.items]]

\* the streams request comes back: the rest of the handler
StreamsAnswer ==
    /\ pc = "streams"
    /\ \E streamsRes \in StreamsAnswers :
        \E h \in {[http EXCEPT !.streamsRes = streamsRes, !.got = @ \cup {"streams"}]} :
         /\ pc' = "done"
         /\ IF streamsRes.net = "reject"
            THEN http' = Throw(h, "fetch failed")
            ELSE IF ~Ok(streamsRes.status)
            THEN http' = ReturnJson(h, [error |-> "Failed to fetch segment streams",
                                        details |-> safeJson(streamsRes)], streamsRes.status)
            ELSE IF ~streamsRes.json.parsed
            THEN http' = Throw(h, "Unexpected token in JSON")
            ELSE \E streams \in {normalizeStreams(streamsRes.json.value)} :
                   IF ~HasLength(streams.distance) \/ ~HasLength(streams.altitude)
                   THEN http' = ReturnJson(h, [error |-> "Missing distance/altitude streams for segment"], 502)
                   ELSE IF h.segRes.json.value.shape = "null"
                   THEN http' = Throw(h, "Cannot use 'in' operator to search for 'id' in null")
                   ELSE http' = ReturnJson(h, ProfileBody(h.segRes.json.value, streams), 200)
    /\ UNCHANGED <<segments, acc, call, config, model, props, memo, view>>

NextRoute == GETBegin \/ TokenAnswer \/ SegmentAnswer \/ StreamsAnswer

SpecRoute == InitRoute /\ [][NextRoute]_vars

\* C16: a GET whose id is missing or is not a non-empty string of decimal
\* digits is answered with status 400 and an error body, and no outbound
\* request (token refresh or Strava fetch) is issued for it.
C16_InvalidIdRefusedWithoutRequests ==
    (/\ call.fn = "GET"
     /\ ~(call.id.present /\ Len(call.id.chars) > 0
          /\ \A i \in 1..Len(call.id.chars) : call.id.chars[i] \in Digits))
    => /\ pc = "done"
       /\ Len(http.responses) = 1
       /\ http.responses[1].status = 400
       /\ "error" \in DOMAIN http.responses[1].body
       /\ http.sent = <<>>

\* the id "12a", credentials in the environment and no header: refused
C16_Witness ==
    /\ call.fn = "GET"
    /\ call.id = Id(<<"1", "2", "a">>)
    /\ call.env.refresh # ""
    /\ pc = "done"
    /\ http.responses[1].status = 400

\* the upstream answer that refused the request, if one did
Refusals ==
    {r \in {http.segRes, http.streamsRes} : r.net = "answer" /\ ~Ok(r.status)}

\* both upstream answers came, OK and parsed
BothOk ==
    /\ {"segment", "streams"} \subseteq http.got
    /\ \A r \in {http.segRes, http.streamsRes} : r.net = "answer" /\ Ok(r.status) /\ r.json.parsed

\* the distance and the altitude stream of the streams answer are non-empty
BothStreams ==
    \E st \in {normalizeStreams(http.streamsRes.json.value)} :
        HasLength(st.distance) /\ HasLength(st.altitude)

\* C17: every GET with a valid id ends in exactly one response whose status
\* classifies the outcome: a non-OK upstream answer yields that status with an
\* error body, OK answers without a non-empty distance and altitude stream
\* yield 502, a thrown error yields 500, and a body with a profile comes only
\* from two OK answers with both streams non-empty.
C17_StatusClassifiesOutcome ==
    (call.fn = "GET" /\ ValidId(call.id) /\ pc = "done")
    => /\ Len(http.responses) = 1
       /\ \A r \in Refusals :
            /\ http.responses[1].status = r.status
            /\ "error" \in DOMAIN http.responses[1].body
       /\ (BothOk /\ ~BothStreams) => http.responses[1].status = 502
       /\ http.thrown # "" => http.responses[1].status = 500
       /\ "profile" \in DOMAIN http.responses[1].body => (BothOk /\ BothStreams)

\* the same with the statuses a response with a body can carry
StatusClassifiesCarriable ==
    (/\ call.fn = "GET" /\ ValidId(call.id) /\ pc = "done"
     /\ \A r \in Refusals : r.status \in 200..599 \ NullBodyStatuses)
    => /\ Len(http.responses) = 1
       /\ \A r \in Refusals :
            /\ http.responses[1].status = r.status
            /\ "error" \in DOMAIN http.responses[1].body
       /\ (BothOk /\ ~BothStreams) => http.responses[1].status = 502
       /\ http.thrown # "" => http.responses[1].status = 500
       /\ "profile" \in DOMAIN http.responses[1].body => (BothOk /\ BothStreams)

\* a request ends with one response, whatever its id, and every request with a
\* valid id that is answered 200 carries the profile
OneResponseEach ==
    pc = "done" =>
        /\ Len(http.responses) = 1
        /\ http.responses[1].status = 200 => "profile" \in DOMAIN http.responses[1].body

\* an answered request is reachable on each path
ProfileAnswered == ~(pc = "done" /\ http.responses[1].status = 200)

\* the final cumulative elevation of accumulate
FinalElev == acc.points[Len(acc.points)].elev

\* C24: avgGrade is the distance-weighted average grade of the climb
\* accumulate describes: 100 x final elevation / (1000 x totalKm) when
\* totalKm > 0, and 0 when the total distance is 0.
C24_AvgGradeMatchesAccumulate ==
    (pc = "accumulated" /\ call.fn = "avgGrade") =>
        /\ JGt(acc.totalKm, Zero) =>
              call.out = JDiv(JMul(Num(100), FinalElev), JMul(Num(1000), acc.totalKm))
        /\ acc.totalKm = Zero => call.out = Zero

\* the same for lists without a negative length and without an infinite
\* length or grade
AvgGradeOfSanitizedLists ==
    (/\ pc = "accumulated" /\ call.fn = "avgGrade"
     /\ \A i \in 1..Len(segments) :
          /\ segments[i].km.k \notin {"pinf", "ninf"}
          /\ segments[i].grade.k \notin {"pinf", "ninf"}
          /\ ~JLt(ToNumber(segments[i].km), Zero)) =>
        /\ JGt(acc.totalKm, Zero) =>
              call.out = JDiv(JMul(Num(100), FinalElev), JMul(Num(1000), acc.totalKm))
        /\ acc.totalKm = Zero => call.out = Zero

\* a negative length alone makes the two disagree
AvgGradeWithNegativeLength ==
    ~(/\ pc = "accumulated" /\ call.fn = "avgGrade"
      /\ segments = <<[km |-> Fin(-1, 1), grade |-> Num(10)], [km |-> Num(1), grade |-> Num(10)]>>
      /\ call.out = Zero
      /\ acc.totalKm = Num(1)
      /\ FinalElev = Num(100))

\* C30: the second argument of niceStep bounds the number of steps: for every
\* range > 0 and every maxTicks >= 1, niceStep(range, maxTicks) x maxTicks >= range.
C30_StepTimesTicksCoversRange ==
    (/\ call.fn = "niceStep"
     /\ JGt(call.range, Zero)
     /\ JLe(Num(1), ToNumber(call.maxTicks))) =>
        JLe(call.range, JMul(call.out, ToNumber(call.maxTicks)))

\* C30 as amended: the nearest nice value may lie below range / maxTicks, by
\* a third at most: for finite range > 0 and finite maxTicks >= 1,
\* 3 x niceStep(range, maxTicks) x maxTicks >= 2 x range.
C30_StepCoversTwoThirds ==
    (/\ call.fn = "niceStep"
     /\ JGt(call.range, Zero) /\ IsFinite(call.range)
     /\ JLe(Num(1), ToNumber(call.maxTicks)) /\ IsFinite(ToNumber(call.maxTicks))) =>
        JLe(JMul(Num(2), call.range),
            JMul(Num(3), JMul(call.out, ToNumber(call.maxTicks))))

\* niceStep(15, 1) = 10: two thirds of the range exactly
C30_Witness ==
    /\ call.fn = "niceStep"
    /\ call.range = Num(15)
    /\ call.maxTicks = Num(1)
    /\ call.out = Num(10)

\* the Authorization header carries a Bearer token
CarriesBearer ==
    /\ call.authorization.present
    /\ call.authorization.scheme \in {"Bearer", "bearer", "BEARER"}
    /\ call.authorization.spaces >= 1
    /\ call.authorization.rest # ""

\* the outbound requests issued so far
Sent == {http.sent[i] : i \in 1..Len(http.sent)}

SanitizedGrade(s) == JOr(ToNumber(s.grade), Zero)

\* C29: the grade that colours a ribbon tile is the grade that shaped it: the
\* value passed to colorForGrade for tile i is the sanitized grade accumulate
\* used for segment i, so a segment with a NaN grade is coloured by the
\* bucket that contains grade 0.
C29_TileColouredByShapingGrade ==
    (pc = "rendered" /\ ~view.raised) =>
        \A i \in 1..Len(view.tiles) :
            /\ view.tiles[i].grade = SanitizedGrade(segments[i])
            /\ IsNaN(segments[i].grade) =>
                  view.tiles[i].fill = BucketColour(Zero, config.slopeColors)

\* the same for profiles without a NaN grade
TileColouredByGradeUnlessNaN ==
    (/\ pc = "rendered" /\ ~view.raised
     /\ \A i \in 1..Len(segments) : ~IsNaN(segments[i].grade)) =>
        \A i \in 1..Len(view.tiles) :
            view.tiles[i].grade = SanitizedGrade(segments[i])

\* a NaN grade takes the colour of the last, steepest bucket
NaNGradeTakesLastColour ==
    (/\ pc = "rendered" /\ ~view.raised
     /\ segments = <<[km |-> Num(1), grade |-> NaN]>>) =>
        /\ view.tiles[1].fill = ColorNames[5]
        /\ model.worldPts[2].Y = model.worldPts[1].Y

----------------------------------------------------------------------------
(* The axes of ProfileChart *)

\* Math.floor
MathFloor(a) == IF IsFinite(a) THEN Num(FloorDiv(a.n, a.d)) ELSE a

\* v.toFixed(n) as a number: the nearest multiple of 10^-n, a half rounded
\* away from zero
ToFixedOf(v, n) ==
    Bind(JMul(v, Pow10(n)),
         LAMBDA s :
           IF s.n >= 0
           THEN JDiv(Num(FloorDiv(2 * s.n + s.d, 2 * s.d)), Pow10(n))
           ELSE JDiv(Num(-FloorDiv(-2 * s.n + s.d, 2 * s.d)), Pow10(n)))

toFixedN(v, n) == IF IsFinite(v) THEN ToFixedOf(v, n) ELSE v

\* labelVal % 1 === 0 ? labelVal : toFixedN(labelVal, 1)
LabelNumber(labelVal) ==
    IF IsFinite(labelVal) /\ labelVal.d = 1 THEN labelVal ELSE toFixedN(labelVal, 1)

\* the tolerance of the tick loops and the floor of the distance step
TickEpsilon == Fin(1, 1000000)

\* grid steps whose distance step is not converted from miles
GridStepsNoMiles(e, cfg) ==
    Bind(MathMax(TickEpsilon, JOr(cfg.grid.distStep, Num(1))),
         LAMBDA distStepLabel :
           IF cfg.units = "imperial"
           THEN Bind(niceStep(JMul(e.elevSpanM, FT_PER_M), cfg.grid.elevLines),
                     LAMBDA stepFt :
                       [isImperial |-> TRUE, distStepLabel |-> distStepLabel,
                        distStepWorldKm |-> distStepLabel,
                        stepYLabel |-> stepFt, stepYkm |-> JDiv(stepFt, FT_PER_KM)])
           ELSE Bind(niceStep(e.H, cfg.grid.elevLines),
                     LAMBDA stepKm :
                       [isImperial |-> FALSE, distStepLabel |-> distStepLabel,
                        distStepWorldKm |-> distStepLabel,
                        stepYLabel |-> stepKm, stepYkm |-> stepKm]))

\* units and grid steps
GridSteps(e, cfg) ==
    Bind(MathMax(TickEpsilon, JOr(cfg.grid.distStep, Num(1))),
         LAMBDA distStepLabel :
           IF cfg.units = "imperial"
           THEN Bind(niceStep(JMul(e.elevSpanM, FT_PER_M), cfg.grid.elevLines),
                     LAMBDA stepFt :
                       [isImperial |-> TRUE, distStepLabel |-> distStepLabel,
                        distStepWorldKm |-> JMul(distStepLabel, KM_PER_MI),
                        stepYLabel |-> stepFt, stepYkm |-> JDiv(stepFt, FT_PER_KM)])
           ELSE Bind(niceStep(e.H, cfg.grid.elevLines),
                     LAMBDA stepKm :
                       [isImperial |-> FALSE, distStepLabel |-> distStepLabel,
                        distStepWorldKm |-> distStepLabel,
                        stepYLabel |-> stepKm, stepYkm |-> stepKm]))

\* the ticks of the distance axis
DistanceTick(e, g, i) ==
    Bind(JMul(Num(i), g.distStepLabel),
         LAMBDA labelVal :
           [i |-> i, xk |-> MathMin(e.W, JMul(Num(i), g.distStepWorldKm)),
            labelVal |-> labelVal, label |-> LabelNumber(labelVal)])

DistanceTicks(e, g) ==
    Bind(MathFloor(JDiv(e.W, g.distStepWorldKm)).n + 1,
         LAMBDA length : [k \in 1..length |-> DistanceTick(e, g, k - 1)] \o <<>>)

\* the ticks of the elevation axis: the loop runs to maxTicks and breaks at
\* the first tick above H
ElevationTick(g, base, i) ==
    Bind(JAdd(base, JMul(Num(i), g.stepYLabel)),
         LAMBDA labelVal :
           [i |-> i, yk |-> JMul(Num(i), g.stepYkm), labelVal |-> labelVal,
            label |-> IF g.isImperial THEN MathRound(labelVal)
                      ELSE LabelNumber(labelVal)])

ElevationTicks(e, g, base) ==
    Bind(MathFloor(JAdd(JDiv(e.H, g.stepYkm), TickEpsilon)).n + 1,
         LAMBDA maxTicks :
           Bind(Cardinality({i \in 0..maxTicks :
                               \A j \in 0..i :
                                 ~JGt(JMul(Num(j), g.stepYkm), JAdd(e.H, TickEpsilon))}),
                LAMBDA count : [k \in 1..count |-> ElevationTick(g, base, k - 1)] \o <<>>))

\* the axes a render draws for the world extents e
RenderAxes(data, e, cfg) ==
    Bind(GridSteps(e, cfg),
         LAMBDA g :
           Bind(baseAbsLabel(data, e, g.isImperial),
                LAMBDA base :
                  [rendered |-> TRUE, steps |-> g, baseAbsLabel |-> base,
                   distTicks |-> DistanceTicks(e, g),
                   elevTicks |-> ElevationTicks(e, g, base)]))

\* profiles with spans of 10 m (the floor), 50, 100, 300 and 1000 m
AxisProfiles ==
    {<<>>, <<[km |-> Num(1), grade |-> Num(-5)]>>, <<[km |-> Num(1), grade |-> Num(10)]>>,
     <<[km |-> Num(3), grade |-> Num(10)]>>,
     <<[km |-> Num(2), grade |-> Num(10)], [km |-> Num(2), grade |-> Num(40)]>>}

AxisStartElevs == {Undefined, Zero, Num(1500), Num(1234)}

AxisConfigs ==
    [units : {"metric", "imperial"},
     grid : [distStep : {Undefined, Num(1), Num(2), Fin(1, 4)}, elevLines : {Num(8), Num(4)}],
     roof : {[depthFrac |-> Fin(1, 10), depthOverrideKm |-> Undefined,
              anchor |-> "back", zOffsetKm |-> Zero]}]

InitAxes ==
    /\ segments = <<>>
    /\ acc = NoResult
    /\ pc = "idle"
    /\ call = NoCall
    /\ config = NoConfig
    /\ model = NoModel
    /\ props = NoProps
    /\ memo = NoMemo
    /\ view = NoView
    /\ http = NoHttp

\* a render of the axes of a profile
RenderAxesOfProfile ==
    \E segs \in AxisProfiles, start \in AxisStartElevs, cfg \in AxisConfigs :
      \E data \in {[segments |-> segs, startElevM |-> start]} :
        \E e \in {WorldExtents(accumulate(segs), cfg)} :
            /\ pc = "idle"
            /\ segments' = segs
            /\ config' = cfg
            /\ call' = [fn |-> "axes", data |-> data]
            /\ model' = e
            /\ view' = RenderAxes(data, e, cfg)
            /\ pc' = "rendered"
            /\ UNCHANGED <<acc, props, memo, http>>

NextAxes == RenderAxesOfProfile

SpecAxes == InitAxes /\ [][NextAxes]_vars

\* the absolute elevation at world Y = 0 in the active unit, 0 without a
\* start elevation
BaseLabel ==
    IF call.data.startElevM.k = "undef" THEN Zero
    ELSE IF config.units = "imperial"
         THEN JMul(JAdd(call.data.startElevM, model.elevMin), Fin(328084, 100000))
         ELSE JDiv(JAdd(call.data.startElevM, model.elevMin), Num(1000))

\* C21: on the elevation axis the label of the tick at world Y = 0 is
\* startElevM + elevMin in the active unit (feet or km) when startElevM is
\* given, 0 included, and 0 when it is absent; the label of tick i is that
\* base plus i times the chosen step, and ticks are emitted only for
\* i x stepYkm <= H.
C21_ElevationLabels ==
    pc = "rendered" =>
        /\ Len(view.elevTicks) >= 1
        /\ \A k \in 1..Len(view.elevTicks) :
              /\ view.elevTicks[k].i = k - 1
              /\ view.elevTicks[k].label =
                     JAdd(BaseLabel, JMul(Num(k - 1), view.steps.stepYLabel))
              /\ JLe(JMul(Num(k - 1), view.steps.stepYkm), model.H)

\* the same for the value that is formatted into the label
ElevationLabelValues ==
    pc = "rendered" =>
        /\ Len(view.elevTicks) >= 1
        /\ \A k \in 1..Len(view.elevTicks) :
              /\ view.elevTicks[k].i = k - 1
              /\ view.elevTicks[k].labelVal =
                     JAdd(BaseLabel, JMul(Num(k - 1), view.steps.stepYLabel))
              /\ JLe(JMul(Num(k - 1), view.steps.stepYkm), model.H)

\* a 300 m climb in metric units: steps of 0.025 km, labels of one decimal
MetricLabelsRepeat ==
    (/\ pc = "rendered" /\ config.units = "metric" /\ config.grid.elevLines = Num(8)
     /\ segments = <<[km |-> Num(3), grade |-> Num(10)]>>
     /\ call.data.startElevM = Undefined) =>
        /\ view.steps.stepYLabel = Fin(25, 1000)
        /\ view.elevTicks[1].label = Zero /\ view.elevTicks[2].label = Zero
        /\ view.elevTicks[3].label = Fin(1, 10) /\ view.elevTicks[4].label = Fin(1, 10)

\* the distance step of the config in the active unit, and the km in one
\* unit of distance
DistStep == IF config.grid.distStep.k = "undef" THEN Num(1) ELSE config.grid.distStep

KmPerUnit == IF config.units = "imperial" THEN Fin(1609344, 1000000) ELSE Num(1)

\* the elevation step in the active unit and in world km
ElevationStepConverted ==
    IF config.units = "imperial"
    THEN \E stepFt \in {niceStep(JMul(model.elevSpanM, Fin(328084, 100000)),
                                 config.grid.elevLines)} :
            /\ view.steps.stepYLabel = stepFt
            /\ view.steps.stepYkm = JDiv(stepFt, Fin(328084, 100))
    ELSE \E stepKm \in {niceStep(model.H, config.grid.elevLines)} :
            /\ view.steps.stepYLabel = stepKm
            /\ view.steps.stepYkm = stepKm

\* the distance ticks are i = 0 .. floor(W / stepKm), tick i at world
\* X = i x distStep x (km per unit), none beyond X = W
DistanceTicksPlaced ==
    /\ Len(view.distTicks) =
          MathFloor(JDiv(model.W, JMul(DistStep, KmPerUnit))).n + 1
    /\ \A k \in 1..Len(view.distTicks) :
          /\ view.distTicks[k].i = k - 1
          /\ view.distTicks[k].xk = JMul(JMul(Num(k - 1), DistStep), KmPerUnit)
          /\ JLe(view.distTicks[k].xk, model.W)

\* C22: grid steps are taken in the active unit and converted to world km:
\* distance tick i sits at X = i x distStep x 1.609344 km in imperial units
\* (factor 1 in metric) and is labelled i x distStep, the elevation step is
\* niceStep(span in feet) / 3280.84 in imperial units; for every tick drawn
\* the label equals the tick's world position in the active unit, and no tick
\* lies beyond X = W.
C22_DistanceLabelsArePositions ==
    pc = "rendered" =>
        /\ ElevationStepConverted
        /\ DistanceTicksPlaced
        /\ \A k \in 1..Len(view.distTicks) :
              /\ view.distTicks[k].label = JMul(Num(k - 1), DistStep)
              /\ view.distTicks[k].label = JDiv(view.distTicks[k].xk, KmPerUnit)

\* C22 as amended: the label is i x distStep printed with one decimal at
\* most, so it is within 0.05 of the tick's world position in the active unit.
C22_DistanceLabelsRounded ==
    pc = "rendered" =>
        /\ ElevationStepConverted
        /\ DistanceTicksPlaced
        /\ \A k \in 1..Len(view.distTicks) :
              /\ view.distTicks[k].labelVal = JMul(Num(k - 1), DistStep)
              /\ view.distTicks[k].labelVal = JDiv(view.distTicks[k].xk, KmPerUnit)
              /\ JMul(view.distTicks[k].label, Num(10)).d = 1
              /\ JLe(MathAbs(JSub(view.distTicks[k].label, view.distTicks[k].labelVal)),
                     Fin(1, 20))

\* imperial units and a quarter-mile step: the second tick sits at
\* 0.402336 km and is labelled 0.3
C22_Witness ==
    /\ pc = "rendered"
    /\ config.units = "imperial"
    /\ config.grid.distStep = Fin(1, 4)
    /\ Len(view.distTicks) >= 2
    /\ view.distTicks[2].xk = Fin(402336, 1000000)
    /\ view.distTicks[2].label = Fin(3, 10)

----------------------------------------------------------------------------
(* The segment route: bins_km and binByDistance *)

\* clampNumber(v, min, max)
clampNumber(v, min, max) ==
    IF IsFinite(v) THEN MathMax(min, MathMin(max, v)) ELSE Undefined

\* the values of the bins_km query parameter (absent: null) and what
\* parseFloat makes of them
NoQuery == [present |-> FALSE, text |-> "", number |-> NaN]
Query(text, number) == [present |-> TRUE, text |-> text, number |-> number]
QueryValues ==
    {NoQuery, Query("", NaN), Query("abc", NaN), Query("0", Zero), Query("-2", Num(-2)),
     Query("Infinity", PInf), Query("1e9", Num(1000000000)), Query("0.01", Fin(1, 100)),
     Query("0.5", Fin(1, 2)), Query("2", Num(2))}

\* parseFloat(searchParams.get("bins_km") || "1")
ParseBinsKm(q) == IF ~q.present \/ q.text = "" THEN Num(1) ELSE q.number

\* const binsKm = clampNumber(parseFloat(...), 0.05, 5) ?? 1
BinsKmOf(q) == Nullish(clampNumber(ParseBinsKm(q), Fin(5, 100), Num(5)), Num(1))

\* the loop of toPoints
RECURSIVE ToPointsLoop(_, _, _, _)
ToPointsLoop(distanceM, altitudeM, n, i) ==
    IF i > n THEN <<>>
    ELSE Bind(ToPointsLoop(distanceM, altitudeM, n, i + 1),
              LAMBDA rest :
                IF ~IsFinite(distanceM[i]) \/ ~IsFinite(altitudeM[i]) THEN rest
                ELSE <<[d_km |-> JDiv(distanceM[i], Num(1000)), elev_m |-> altitudeM[i]]>>
                     \o rest)

\* toPoints(distanceM, altitudeM)
toPoints(distanceM, altitudeM) ==
    Bind(ToPointsLoop(distanceM, altitudeM,
                      IF Len(distanceM) < Len(altitudeM) THEN Len(distanceM)
                      ELSE Len(altitudeM), 1),
         LAMBDA pts :
           IF pts # <<>> /\ JGt(pts[1].d_km, Fin(5, 1000))
           THEN <<[d_km |-> Zero, elev_m |-> pts[1].elev_m]>> \o pts
           ELSE pts)

\* getElevAt(targetKm): the first pair of points that brackets targetKm
RECURSIVE GetElevAtFrom(_, _, _)
GetElevAtFrom(points, targetKm, i) ==
    IF i > Len(points) THEN points[Len(points)].elev_m
    ELSE IF /\ JLe(points[i - 1].d_km, targetKm) /\ JLe(targetKm, points[i].d_km)
            /\ JGt(points[i].d_km, points[i - 1].d_km)
         THEN Bind(JDiv(JSub(targetKm, points[i - 1].d_km),
                        JSub(points[i].d_km, points[i - 1].d_km)),
                   LAMBDA t : JAdd(points[i - 1].elev_m,
                                   JMul(t, JSub(points[i].elev_m, points[i - 1].elev_m))))
         ELSE GetElevAtFrom(points, targetKm, i + 1)

getElevAt(points, targetKm) == GetElevAtFrom(points, targetKm, 2)

\* a bin as pushBin pushes it, with the values of accDist, accRise and the
\* grade before they are rounded
Bin(km, rise, grade) ==
    [km |-> toFixedN(km, 3), grade |-> toFixedN(grade, 2),
     accDist |-> km, accRise |-> rise, gradeRaw |-> grade]

\* pushBin dividing the rise by the requested bin size
pushBinRequested(st, binKm) ==
    IF JLe(st.accDist, Zero) THEN st
    ELSE [st EXCEPT !.result = Append(@, Bin(st.accDist, st.accRise,
                        JMul(JDiv(st.accRise, JMul(binKm, Num(1000))), Num(100)))),
                    !.accDist = Zero, !.accRise = Zero]

\* pushBin
pushBin(st, binKm) ==
    IF JLe(st.accDist, Zero) THEN st
    ELSE [st EXCEPT !.result = Append(@, Bin(st.accDist, st.accRise,
                        JMul(JDiv(st.accRise, JMul(st.accDist, Num(1000))), Num(100)))),
                    !.accDist = Zero, !.accRise = Zero]

\* the distance and altitude streams (m) handed to toPoints
DistanceStreams ==
    {<<Num(0)>>, <<Num(0), Num(1000)>>, <<Num(0), Num(500), Num(1500)>>,
     <<Num(0), Fin(10004, 10)>>, <<Num(0), Num(2500)>>,
     <<Num(0), Num(700), Num(700), Num(1200)>>, <<Num(100), NaN, Num(1200)>>,
     <<Num(0), Num(800), Num(600), Num(1400)>>}
AltitudeStreams ==
    {<<Num(10), Num(60), Num(40), Num(100)>>, <<Num(100), Num(100), Num(100)>>}

InitBin ==
    /\ segments = <<>>
    /\ acc = NoResult
    /\ pc = "idle"
    /\ call = NoCall
    /\ config = NoConfig
    /\ model = NoModel
    /\ props = NoProps
    /\ memo = NoMemo
    /\ view = NoView
    /\ http = NoHttp

\* GET computes binsKm and the points, and binByDistance starts
CallBinByDistance ==
    /\ pc = "idle"
    /\ \E q \in QueryValues, distanceM \in DistanceStreams, altitudeM \in AltitudeStreams :
        \E binKm \in {BinsKmOf(q)}, points \in {toPoints(distanceM, altitudeM)} :
          /\ call' = [fn |-> "binByDistance", query |-> q, points |-> points, binKm |-> binKm,
                      at |-> IF points = <<>>
                             THEN [i |-> 1, prevD |-> Zero, prevE |-> Zero, nextEdge |-> Zero,
                                   accDist |-> Zero, accRise |-> Zero, result |-> <<>>]
                             ELSE [i |-> 2, prevD |-> points[1].d_km,
                                   prevE |-> points[1].elev_m,
                                   nextEdge |-> JAdd(points[1].d_km, binKm),
                                   accDist |-> Zero, accRise |-> Zero, result |-> <<>>]]
          /\ pc' = IF points = <<>> THEN "done" ELSE "loop"
    /\ UNCHANGED <<segments, acc, config, model, props, memo, view, http>>

\* one iteration of while (d >= nextEdge): the bin is split at the edge
EdgeStep ==
    /\ pc = "loop"
    /\ call.at.i <= Len(call.points)
    /\ JLe(call.at.nextEdge, call.points[call.at.i].d_km)
    /\ \E st \in {call.at} :
        \E eAt \in {getElevAt(call.points, st.nextEdge)} :
         \E pushed \in {pushBin([st EXCEPT
                                   !.accDist = JAdd(@, JSub(st.nextEdge, st.prevD)),
                                   !.accRise = JAdd(@, JSub(eAt, st.prevE))], call.binKm)} :
            call' = [call EXCEPT !.at = [pushed EXCEPT !.prevD = st.nextEdge, !.prevE = eAt,
                                           !.nextEdge = JAdd(st.nextEdge, call.binKm)]]
    /\ UNCHANGED <<segments, acc, pc, config, model, props, memo, view, http>>

\* the rest of an iteration of the for loop: the piece inside the current bin
PieceStep ==
    /\ pc = "loop"
    /\ call.at.i <= Len(call.points)
    /\ ~JLe(call.at.nextEdge, call.points[call.at.i].d_km)
    /\ \E st \in {call.at}, p \in {call.points[call.at.i]} :
          call' = [call EXCEPT !.at =
                     IF JGt(JSub(p.d_km, st.prevD), Zero)
                     THEN [st EXCEPT !.accDist = JAdd(@, JSub(p.d_km, st.prevD)),
                                     !.accRise = JAdd(@, JSub(p.elev_m, st.prevE)),
                                     !.prevD = p.d_km, !.prevE = p.elev_m,
                                     !.i = st.i + 1]
                     ELSE [st EXCEPT !.i = st.i + 1]]
    /\ UNCHANGED <<segments, acc, pc, config, model, props, memo, view, http>>

\* the loop is over: the final partial bin, and the return
FinalBin ==
    /\ pc = "loop"
    /\ call.at.i > Len(call.points)
    /\ call' = [call EXCEPT !.at = pushBin(call.at, call.binKm)]
    /\ pc' = "done"
    /\ UNCHANGED <<segments, acc, config, model, props, memo, view, http>>

NextBin == CallBinByDistance \/ EdgeStep \/ PieceStep \/ FinalBin

SpecBin == InitBin /\ [][NextBin]_vars

\* the loop cannot stall: the for loop and the while loop are each taken in turn
FairBin == SpecBin /\ WF_vars(NextBin)


\* where bin k starts, how long it is and the elevation change across it, read
\* off the points: bins start every binKm from the first point, and the last
\* one ends where the walk over the points ended
BinStart(k) == JAdd(call.points[1].d_km, JMul(Num(k - 1), call.binKm))
BinLength(k) ==
    IF k < Len(call.at.result) THEN call.binKm ELSE JSub(call.at.prevD, BinStart(k))
BinRise(k) ==
    JSub(getElevAt(call.points, JAdd(BinStart(k), BinLength(k))),
         getElevAt(call.points, BinStart(k)))
GradeOver(riseM, km) == JMul(JDiv(riseM, JMul(km, Num(1000))), Num(100))

\* C23: every returned bin, the final partial one included, has the grade
\* (riseM / (binKm * 1000)) * 100 before rounding, riseM being the interpolated
\* elevation change across the bin and binKm the requested bin size
C23_GradeOverRequestedSize ==
    pc = "done" =>
      \A k \in 1..Len(call.at.result) :
        call.at.result[k].gradeRaw = GradeOver(BinRise(k), call.binKm)

\* C23 (amended): the grade of a bin is its interpolated elevation change over
\* its own length, which is the requested size for every bin but the last and
\* at most the requested size for the last; the returned grade is that value
\* rounded to 2 decimals
C23_GradeOverOwnLength ==
    pc = "done" =>
      \A k \in 1..Len(call.at.result) :
        /\ JGt(BinLength(k), Zero)
        /\ JLe(BinLength(k), call.binKm)
        /\ call.at.result[k].gradeRaw = GradeOver(BinRise(k), BinLength(k))
        /\ call.at.result[k].grade = toFixedN(GradeOver(BinRise(k), BinLength(k)), 2)

\* a walk that ended with a final bin shorter than the requested size, after a
\* full one, both with a rise
C23_Witness ==
    /\ pc = "done"
    /\ Len(call.at.result) >= 2
    /\ JLt(BinLength(Len(call.at.result)), call.binKm)
    /\ BinRise(Len(call.at.result)) # Zero
    /\ BinRise(1) # Zero


\* C26: whatever bins_km is, the bin size binByDistance gets lies in
\* [0.05, 5], and every bin it emits has km > 0
C26_BinSizeClampedAndBinsPositive ==
    pc \in {"loop", "done"} =>
      /\ JLe(Fin(5, 100), call.binKm) /\ JLe(call.binKm, Num(5))
      /\ \A k \in 1..Len(call.at.result) : JGt(call.at.result[k].km, Zero)

\* the part of C26 about the bin size: it lies in [0.05, 5] for every query value
BinSizeClamped ==
    pc \in {"loop", "done"} =>
      JLe(Fin(5, 100), call.binKm) /\ JLe(call.binKm, Num(5))

\* the part of C26 about the emitted bins, before km is rounded to 3 decimals
BinsPositiveBeforeRounding ==
    pc \in {"loop", "done"} =>
      \A k \in 1..Len(call.at.result) : JGt(call.at.result[k].accDist, Zero)

\* the part of C26 about the loop: every pass through the while loop moves
\* nextEdge up by the bin size, and every other step moves on to the next point
LoopAdvances ==
    [][pc = "loop" =>
         \/ /\ call'.at.nextEdge = JAdd(call.at.nextEdge, call.binKm)
            /\ JGt(call'.at.nextEdge, call.at.nextEdge)
            /\ call'.at.i = call.at.i
         \/ /\ call'.at.nextEdge = call.at.nextEdge
            /\ call'.at.i = call.at.i + 1
         \/ pc' = "done"]_vars

\* the part of C26 about termination: binByDistance returns
BinByDistanceReturns == <>(pc = "done")

\* a bin shorter than half a metre is emitted with km = 0
ZeroKmBinEmitted ==
    /\ pc = "done"
    /\ \E k \in 1..Len(call.at.result) :
         call.at.result[k].km = Zero /\ JGt(call.at.result[k].accDist, Zero)

----------------------------------------------------------------------------
(* Export: inlineThemeVars, downloadSVG, downloadPNG *)

\* the exports one page may be asked for, and the renders it may go through
MaxExports == 2
MaxRenders == 2

\* Object.keys(FALLBACK)
ThemeVars ==
    <<"--face-yellow", "--grid", "--road-stroke", "--centerline", "--platform",
      "--platform-wall">>

\* FALLBACK[v]
FALLBACK(v) ==
    CASE v = "--face-yellow" -> "#f7e84a"
      [] v = "--grid" -> "rgba(0,0,0,.18)"
      [] v = "--road-stroke" -> "#2c2c2c"
      [] v = "--centerline" -> "#ffffff"
      [] v = "--platform" -> "#d1d5db"
      [] v = "--platform-wall" -> "#c0c6cf"

\* the themes of the document: none defines nothing, dark and light define
\* some of the variables
Themes == {"none", "light", "dark"}

\* (root.getPropertyValue(v) || "").trim()
RootValue(theme, v) ==
    CASE theme = "none" -> ""
      [] theme = "light" -> IF v = "--grid" THEN "" ELSE FALLBACK(v)
      [] theme = "dark" ->
           CASE v = "--face-yellow" -> "#d4c53a"
             [] v = "--grid" -> "rgba(255,255,255,.18)"
             [] v = "--road-stroke" -> "#e5e5e5"
             [] v = "--centerline" -> "#111111"
             [] OTHER -> ""

\* a declaration of a style attribute; the attribute is the declarations
\* joined by "; "
Decl(prop, val) == [prop |-> prop, val |-> val]

\* the style React gives the svg element
ReactStyle ==
    <<Decl("display", "block"), Decl("max-width", "100%"), Decl("height", "auto")>>

\* const decls = Object.keys(FALLBACK).map(...)
ThemeDecls(theme) ==
    [i \in 1..Len(ThemeVars) |->
       Decl(ThemeVars[i],
            IF RootValue(theme, ThemeVars[i]) # "" THEN RootValue(theme, ThemeVars[i])
            ELSE FALLBACK(ThemeVars[i]))]

\* inlineThemeVars(svg)
inlineThemeVars(svg, theme) ==
    [svg EXCEPT !.style = ThemeDecls(theme) \o svg.style]

\* new XMLSerializer().serializeToString(svg): the attributes of the element
\* and the chart drawn inside it
serializeToString(svg) == [style |-> svg.style, chart |-> svg.chart]

\* "data:image/svg+xml;charset=utf-8," + encodeURIComponent(s), and the
\* document an image decodes from it
DataUrl(s) == [scheme |-> "data:image/svg+xml;charset=utf-8", payload |-> s]
Decoded(url) == url.payload

\* the filename of a download
FileName(filename, ext) == [base |-> filename, ext |-> ext]

\* what img.onload draws, were the svg serialized there
DrawnImageLive(c, svg) == serializeToString(svg)

\* what img.onload draws: the image decoded from the url made in the call
DrawnImage(c, svg) == Decoded(c.url)

NoExports == [fn |-> "export", calls |-> <<>>, downloads |-> <<>>]

InitExport ==
    /\ segments = <<>>
    /\ acc = NoResult
    /\ pc = "idle"
    /\ call = NoExports
    /\ config = NoConfig
    /\ model = NoModel
    /\ props = NoProps
    /\ memo = NoMemo
    /\ view = [rendered |-> TRUE, theme |-> "light", style |-> ReactStyle, chart |-> 1]
    /\ http = NoHttp

\* the chart is rendered again with new data or a new config: the children of
\* the svg element change, its style does not
ReRender ==
    /\ view.chart < MaxRenders
    /\ view' = [view EXCEPT !.chart = @ + 1]
    /\ UNCHANGED <<segments, acc, pc, call, config, model, props, memo, http>>

\* the document changes theme
SwitchTheme ==
    /\ \E t \in Themes \ {view.theme} : view' = [view EXCEPT !.theme = t]
    /\ UNCHANGED <<segments, acc, pc, call, config, model, props, memo, http>>

\* downloadSVG(svg, filename)
DownloadSVG ==
    /\ Len(call.calls) < MaxExports
    /\ \E svg \in {inlineThemeVars(view, view.theme)} :
        \E s \in {serializeToString(svg)} :
          /\ view' = svg
          /\ call' = [call EXCEPT
                        !.calls = Append(@, [kind |-> "svg", stage |-> "done", s |-> s,
                                             url |-> DataUrl(s), canvas |-> s,
                                             theme |-> view.theme, chart |-> view.chart]),
                        !.downloads = Append(@, [by |-> Len(call.calls) + 1,
                                                 name |-> FileName("climb", "svg"),
                                                 content |-> s])]
    /\ UNCHANGED <<segments, acc, pc, config, model, props, memo, http>>

\* downloadPNG(svg, filename): the part that runs in the call
DownloadPNG ==
    /\ Len(call.calls) < MaxExports
    /\ \E svg \in {inlineThemeVars(view, view.theme)} :
        \E s \in {serializeToString(svg)} :
          /\ view' = svg
          /\ call' = [call EXCEPT
                        !.calls = Append(@, [kind |-> "png", stage |-> "loading", s |-> s,
                                             url |-> DataUrl(s), canvas |-> s,
                                             theme |-> view.theme, chart |-> view.chart])]
    /\ UNCHANGED <<segments, acc, pc, config, model, props, memo, http>>

\* img.onload: the image is drawn on the canvas and toBlob is asked for
ImageLoaded ==
    /\ \E i \in 1..Len(call.calls) :
        /\ call.calls[i].stage = "loading"
        /\ call' = [call EXCEPT !.calls[i].stage = "encoding",
                                !.calls[i].canvas = DrawnImage(call.calls[i], view)]
    /\ UNCHANGED <<segments, acc, pc, config, model, props, memo, view, http>>

\* the image does not load: no handler is set for that
ImageFailed ==
    /\ \E i \in 1..Len(call.calls) :
        /\ call.calls[i].stage = "loading"
        /\ call' = [call EXCEPT !.calls[i].stage = "failed"]
    /\ UNCHANGED <<segments, acc, pc, config, model, props, memo, view, http>>

\* the callback of canvas.toBlob: with a blob the file is downloaded, with
\* null URL.createObjectURL throws
BlobReady ==
    /\ \E i \in 1..Len(call.calls), blob \in {"blob", "null"} :
        /\ call.calls[i].stage = "encoding"
        /\ call' = IF blob = "null"
                   THEN [call EXCEPT !.calls[i].stage = "threw"]
                   ELSE [call EXCEPT
                           !.calls[i].stage = "done",
                           !.downloads = Append(@, [by |-> i,
                                                    name |-> FileName("climb", "png"),
                                                    content |-> call.calls[i].canvas])]
    /\ UNCHANGED <<segments, acc, pc, config, model, props, memo, view, http>>

NextExport ==
    \/ ReRender
    \/ SwitchTheme
    \/ DownloadSVG
    \/ DownloadPNG
    \/ ImageLoaded
    \/ ImageFailed
    \/ BlobReady

SpecExport == InitExport /\ [][NextExport]_vars


\* how many declarations of a property a style holds, and the value the
\* property ends up with (the last declaration wins)
RECURSIVE CountDecls(_, _)
CountDecls(style, prop) ==
    IF style = <<>> THEN 0
    ELSE (IF Head(style).prop = prop THEN 1 ELSE 0) + CountDecls(Tail(style), prop)
RECURSIVE EffectiveValue(_, _)
EffectiveValue(style, prop) ==
    IF style = <<>> THEN ""
    ELSE IF style[Len(style)].prop = prop THEN style[Len(style)].val
    ELSE EffectiveValue(SubSeq(style, 1, Len(style) - 1), prop)

\* C27: after any number of exports of the same svg element its style holds
\* each theme variable exactly once, and the k-th export serializes the same
\* SVG as the first when the chart and the theme are the same
C27_ExportRepeatable ==
    \A k \in 1..Len(call.calls) :
      /\ \A i \in 1..Len(ThemeVars) : CountDecls(call.calls[k].s.style, ThemeVars[i]) = 1
      /\ (/\ call.calls[k].chart = call.calls[1].chart
          /\ call.calls[k].theme = call.calls[1].theme)
         => call.calls[k].s = call.calls[1].s

\* what the code does instead: the k-th export holds every theme variable k times
ExportsPileUpDeclarations ==
    \A k \in 1..Len(call.calls) :
      \A i \in 1..Len(ThemeVars) : CountDecls(call.calls[k].s.style, ThemeVars[i]) = k

\* an export made after a change of theme whose style still resolves a theme
\* variable to the value of the earlier theme
StaleThemeExported ==
    \E k \in 1..Len(call.calls) :
      \E i \in 1..Len(ThemeVars) :
        EffectiveValue(call.calls[k].s.style, ThemeVars[i])
          # ThemeDecls(call.calls[k].theme)[i].val

\* the first export is as the claim says
FirstExportInlinesOnce ==
    Len(call.calls) >= 1 =>
      \A i \in 1..Len(ThemeVars) :
        /\ CountDecls(call.calls[1].s.style, ThemeVars[i]) = 1
        /\ EffectiveValue(call.calls[1].s.style, ThemeVars[i])
             = ThemeDecls(call.calls[1].theme)[i].val

\* C28: a PNG download carries the SVG as it was serialized in the call, with
\* the chart and the theme of that moment, whatever was rendered afterwards;
\* a call downloads at most one file, and only once its image has loaded and
\* been encoded
C28_PngCapturedAtCallTime ==
    /\ \A j \in 1..Len(call.downloads) :
         LET c == call.calls[call.downloads[j].by] IN
           /\ call.downloads[j].content = c.s
           /\ call.downloads[j].content.chart = c.chart
           /\ SubSeq(call.downloads[j].content.style, 1, Len(ThemeVars)) = ThemeDecls(c.theme)
           /\ c.stage = "done"
    /\ \A j1, j2 \in 1..Len(call.downloads) :
         call.downloads[j1].by = call.downloads[j2].by => j1 = j2
    /\ \A i \in 1..Len(call.calls) :
         call.calls[i].kind = "png" /\ call.calls[i].stage \in {"loading", "failed", "threw"}
           => \A j \in 1..Len(call.downloads) : call.downloads[j].by # i

\* a PNG downloaded after the chart was rendered again between the call and
\* the load of the image
C28_Witness ==
    \E j \in 1..Len(call.downloads) :
      /\ call.downloads[j].name.ext = "png"
      /\ call.calls[call.downloads[j].by].chart # view.chart
      /\ call.downloads[j].content.chart = call.calls[call.downloads[j].by].chart

\* a download is added only by downloadSVG or by the toBlob callback of a
\* call whose image had loaded
DownloadOnlyAfterLoad ==
    [][call'.downloads # call.downloads =>
         \/ /\ Len(call'.calls) = Len(call.calls) + 1
            /\ call'.calls[Len(call'.calls)].kind = "svg"
         \/ \E i \in 1..Len(call.calls) :
              /\ call.calls[i].kind = "png" /\ call.calls[i].stage = "encoding"
              /\ call'.downloads = Append(call.downloads,
                                          [by |-> i, name |-> FileName("climb", "png"),
                                           content |-> call.calls[i].s])]_vars

====
